---------------------------- MODULE Spec2Model ----------------------------
(***************************************************************************)
(* Candidate-application intake: the three submission pipelines            *)
(*   POST /api/applications-v2   (src/app/api/applications-v2/route.js)    *)
(*   POST /api/applications      (src/app/api/applications/route.js)       *)
(*   POST /api/applications with the origin guard                          *)
(*                               (src/app/api/health/route.js:169-546)     *)
(* each serving concurrent requests against one document store and one     *)
(* object store, and the process-wide cached database connection           *)
(* (connectDB).  The requests of one behaviour address the same handler.   *)
(*                                                                         *)
(* A handler is an async function: the code between two awaits runs to     *)
(* completion, so every action below is one step of a handler, and the     *)
(* steps of different requests interleave freely.                          *)
(***************************************************************************)
EXTENDS Integers, Sequences, FiniteSets, TLC

VARIABLES
    nodeEnv,        \* process.env.NODE_ENV
    endpoint,       \* the submission handler the requests of this run address
    headers,        \* the origin and referer headers the client sends, if fixed
    req,            \* per request: route, position, parsed email, results
    applications,   \* the applications collection (ApplicationRecord)
    fileUploads,    \* the file_uploads collection (FileUploadRecord)
    cloud,          \* objects held by the object storage provider
    cached,         \* global.mongoose = { conn, promise }
    attempt,        \* state of every mongoose.connect() attempt
    caller,         \* every connectDB() invocation
    jobs,           \* the microtask queue of the event loop
    call            \* one call of a library function: arguments and result

pipeVars == <<nodeEnv, endpoint, headers, req, applications, fileUploads, cloud>>
connVars == <<cached, attempt, caller, jobs>>
fnVars == <<call>>
vars == <<nodeEnv, endpoint, headers, req, applications, fileUploads, cloud,
          cached, attempt, caller, jobs, call>>

(***************************************************************************)
(* Bounds                                                                  *)
(***************************************************************************)
MaxRequests == 2
MaxCallers == 3
MaxAttempts == 2

Requests == 1..MaxRequests

(***************************************************************************)
(* Strings are sequences of chunks; " " is white space.                    *)
(***************************************************************************)
LowerChunk(c) ==
    CASE c = "Bob" -> "bob"
      [] c = "Amy" -> "amy"
      [] c = "HTTP" -> "http"
      [] c = "HTTPS" -> "https"
      [] OTHER -> c

ToLowerCase(s) == [i \in 1..Len(s) |-> LowerChunk(s[i])]

RECURSIVE TrimStart(_)
TrimStart(s) ==
    IF s # <<>> /\ Head(s) = " " THEN TrimStart(Tail(s)) ELSE s

RECURSIVE TrimEnd(_)
TrimEnd(s) ==
    IF s # <<>> /\ s[Len(s)] = " " THEN TrimEnd(SubSeq(s, 1, Len(s) - 1)) ELSE s

Trim(s) == TrimEnd(TrimStart(s))

\* the emailAddress the form can carry
RawEmails ==
    { <<"bob", "@x.io">>, <<" ", "Bob", "@x.io", " ">>, <<"amy", "@x.io">> }

\* emailAddress: { lowercase: true, trim: true }: the setters mongoose runs on
\* a document field and on a query filter
EmailSetter(s) == Trim(ToLowerCase(s))

(***************************************************************************)
(* Errors thrown by the store, the driver and the platform.  words is the  *)
(* set of key words the lower-cased message contains.                      *)
(***************************************************************************)
ValidationError ==
    [name |-> "ValidationError", code |-> "none", codeName |-> "",
     words |-> {"validation"}]

\* the paths of the Application schema whose validators this model has, in
\* the order of the schema
SchemaPaths ==
    <<"age", "mobileNumber", "yearOfPassing", "careerGap", "declarationAccepted">>

\* document.validate() rejects: error.errors has one entry per failed path,
\* which holds the message of the validator that failed
SchemaValidationError(errors) ==
    [k \in DOMAIN ValidationError \cup {"errors"} |->
        IF k = "errors" THEN errors ELSE ValidationError[k]]

\* E11000 duplicate key error ... dup key: { emailAddress: "<email>" }
DuplicateKeyError(email) ==
    [name |-> "MongoServerError", code |-> "11000", codeName |-> "duplicatekey",
     words |-> {"duplicate"} \cup {email[i] : i \in 1..Len(email)}]

AuthError ==
    [name |-> "MongoServerError", code |-> "8000",
     codeName |-> "atlasauthenticationerror", words |-> {"bad auth"}]

NetworkError ==
    [name |-> "MongoNetworkError", code |-> "ECONNREFUSED", codeName |-> "",
     words |-> {"econnrefused"}]

TimeoutError ==
    [name |-> "MongooseServerSelectionError", code |-> "none", codeName |-> "",
     words |-> {"timed out"}]

PlainError ==
    [name |-> "TypeError", code |-> "none", codeName |-> "", words |-> {}]

\* nothing was thrown
NoError == [name |-> "none", code |-> "none", codeName |-> "", words |-> {}]

\* what connecting to the store can throw, and what a query or a write can
StoreErrors == {AuthError, NetworkError, TimeoutError, PlainError}
QueryErrors == {NetworkError}

(***************************************************************************)
(* lib/mongodb.js: classifyDatabaseError, getErrorType, createErrorResponse *)
(* and getHttpStatus                                                        *)
(***************************************************************************)
classifyDatabaseError(error) ==
    IF \/ error.code = "8000"
       \/ error.codeName = "atlasauthenticationerror"
       \/ error.words \cap {"bad auth", "authentication failed", "unauthorized"} # {}
    THEN [category |-> "AUTHENTICATION", httpStatus |-> 401,
          message |->
              "MongoDB authentication failed. Invalid username or password.",
          hint |-> "Check MongoDB Atlas Database Access credentials"]
    ELSE IF \/ error.words \cap {"econnrefused", "enotfound", "network",
                                 "ip whitelist"} # {}
            \/ error.code \in {"ECONNREFUSED", "ENOTFOUND"}
    THEN [category |-> "NETWORK", httpStatus |-> 503,
          message |->
              "Cannot connect to MongoDB server. Check network and firewall.",
          hint |-> "Verify MongoDB Atlas cluster is running and IP whitelist includes your location"]
    ELSE IF \/ error.words \cap {"timeout", "timed out"} # {}
            \/ error.code = "ETIMEDOUT"
    THEN [category |-> "TIMEOUT", httpStatus |-> 504,
          message |-> "MongoDB connection timed out.",
          hint |-> "Check MongoDB Atlas cluster status and network connectivity"]
    ELSE IF \/ error.words \cap {"duplicate", "validation"} # {}
            \/ error.code = "11000"
            \/ error.name = "ValidationError"
    THEN [category |-> "VALIDATION", httpStatus |-> 400,
          message |-> "Data validation failed.",
          hint |-> "Check that all required fields are valid and no duplicate emails exist"]
    ELSE [category |-> "UNKNOWN", httpStatus |-> 500,
          message |-> "Database operation failed.",
          hint |-> "Check server logs for details"]

getErrorType(category) ==
    CASE category = "AUTHENTICATION" -> "DATABASE_AUTH"
      [] category = "NETWORK" -> "DATABASE_CONNECTION"
      [] category = "TIMEOUT" -> "DATABASE_CONNECTION"
      [] OTHER -> "DATABASE_WRITE"

getHttpStatus(error) == classifyDatabaseError(error).httpStatus

\* the response NextResponse.json(createErrorResponse(e, ..), {status: getHttpStatus(e)})
DatabaseErrorResponse(error) ==
    [status |-> getHttpStatus(error),
     error |-> getErrorType(classifyDatabaseError(error).category),
     message |-> classifyDatabaseError(error).message,
     hint |-> classifyDatabaseError(error).hint]

(***************************************************************************)
(* lib/errorHandler.js                                                     *)
(***************************************************************************)
ErrorStatusCodes(errorCode) ==
    CASE errorCode = "INVALID_REQUEST" -> 400
      [] errorCode = "MISSING_FILES" -> 400
      [] errorCode = "INVALID_FILE_TYPE" -> 400
      [] errorCode = "FILE_SIZE_EXCEEDED" -> 413
      [] errorCode = "INVALID_MIME_TYPE" -> 400
      [] errorCode = "VALIDATION_FAILED" -> 400
      [] errorCode = "ORIGIN_BLOCKED" -> 401
      [] errorCode = "UNAUTHORIZED" -> 401
      [] errorCode = "CLOUDINARY_UPLOAD_FAILED" -> 500
      [] errorCode = "DATABASE_ERROR" -> 500
      [] errorCode = "INTERNAL_ERROR" -> 500
      [] OTHER -> 500

\* an argument that is null, and an object with one more key
Null == [null |-> TRUE]
With(object, key, value) ==
    [k \in DOMAIN object \cup {key} |-> IF k = key THEN value ELSE object[k]]

\* the body has a details key only when details is given:
\* ...(details && { details })
createErrorResponse(errorCode, message, details) ==
    IF details = Null
    THEN [status |-> ErrorStatusCodes(errorCode), error |-> errorCode,
          message |-> message]
    ELSE [status |-> ErrorStatusCodes(errorCode), error |-> errorCode,
          message |-> message, details |-> details]

createSuccessResponse(data, statusCode) ==
    [status |-> statusCode, error |-> "none", message |-> "success",
     data |-> data]

\* a response built with NextResponse.json directly
JsonResponse(status, errorType, message) ==
    [status |-> status, error |-> errorType, message |-> message]

NoResponse == [status |-> 0, error |-> "none", message |-> "none"]

(***************************************************************************)
(* Files of the multipart body.  head holds the leading bytes of the       *)
(* content, urlName says that the file name starts with http(s)://         *)
(***************************************************************************)
MiB == 1024 * 1024

JpegBytes == <<255, 216, 255, 224>>
PngBytes == <<137, 80, 78, 71>>
PdfBytes == <<37, 80, 68, 70>>

MakeFile(type, ext, size, head) ==
    [type |-> type, ext |-> ext, size |-> size, head |-> head, urlName |-> FALSE]

\* photographs and resumes a client can send
SampleFiles ==
    { MakeFile("image/jpeg", ".jpg", 2 * MiB, JpegBytes),
      MakeFile("image/jpeg", ".jpg", 5 * MiB + 1, JpegBytes),
      MakeFile("image/jpeg", ".jpg", 2 * MiB, PngBytes),
      MakeFile("image/jpg", ".jpg", 2 * MiB, JpegBytes),
      MakeFile("image/png", ".png", 0, <<>>),
      MakeFile("application/pdf", ".pdf", 3 * MiB, PdfBytes),
      MakeFile("application/pdf", ".pdf", 10 * MiB + 1, PdfBytes),
      MakeFile("application/pdf", ".pdf", 3 * MiB, PngBytes),
      MakeFile("text/plain", ".txt", 1, <<104>>),
      MakeFile("image/gif", ".gif", 1, <<71, 73, 70>>),
      [MakeFile("image/jpeg", ".jpg", 2 * MiB, JpegBytes) EXCEPT !.urlName = TRUE] }

Valid == [valid |-> TRUE, error |-> "none"]
Invalid(error) == [valid |-> FALSE, error |-> error]

\* the function did not return: it threw <error>
Raised(error) == [valid |-> FALSE, error |-> error, raised |-> TRUE]
IsRaised(v) == "raised" \in DOMAIN v

(***************************************************************************)
(* lib/validation.js, the validator of applications-v2                     *)
(***************************************************************************)
ALLOWED_MIME_TYPES(category) ==
    CASE category = "IMAGE" -> {"image/jpeg", "image/png", "image/webp"}
      [] category = "PDF" -> {"application/pdf"}
      [] OTHER -> {}

FILE_SIZE_LIMITS(category) ==
    CASE category = "IMAGE" -> 5 * MiB
      [] category = "PDF" -> 10 * MiB
      [] OTHER -> 0

FILE_SIGNATURES(mimeType) ==
    CASE mimeType = "image/jpeg" -> {<<255, 216, 255>>}
      [] mimeType = "image/png" -> {<<137, 80, 78, 71>>}
      [] mimeType = "image/webp" -> {<<82, 73, 70, 70>>}
      [] mimeType = "application/pdf" -> {<<37, 80, 68, 70>>}
      [] OTHER -> {}

\* signature.every((byte, index) => uint8Array[index] === byte)
StartsWith(bytes, signature) ==
    \A index \in 1..Len(signature) :
        index <= Len(bytes) /\ bytes[index] = signature[index]

\* a signature check that compares only the bytes the buffer holds
validateFileSignatureOfPresentBytes(head, mimeType) ==
    IF FILE_SIGNATURES(mimeType) = {} THEN TRUE
    ELSE \E signature \in FILE_SIGNATURES(mimeType) :
            \A index \in 1..Len(signature) :
                index <= Len(head) => head[index] = signature[index]

validateFileSignature(head, mimeType) ==
    IF FILE_SIGNATURES(mimeType) = {} THEN TRUE
    ELSE \E signature \in FILE_SIGNATURES(mimeType) : StartsWith(head, signature)

validateMimeType(file, category) ==
    IF ALLOWED_MIME_TYPES(category) = {} THEN Invalid("Invalid category")
    ELSE IF file.type \notin ALLOWED_MIME_TYPES(category)
    THEN Invalid("Invalid MIME type")
    ELSE Valid

\* a size check whose ceiling is exclusive
validateFileSizeBelowLimit(file, category) ==
    IF FILE_SIZE_LIMITS(category) = 0 THEN Invalid("Invalid category")
    ELSE IF file.size = 0 THEN Invalid("File is empty")
    ELSE IF file.size >= FILE_SIZE_LIMITS(category)
    THEN Invalid("File size exceeds limit")
    ELSE Valid

validateFileSize(file, category) ==
    IF FILE_SIZE_LIMITS(category) = 0 THEN Invalid("Invalid category")
    ELSE IF file.size = 0 THEN Invalid("File is empty")
    ELSE IF file.size > FILE_SIZE_LIMITS(category)
    THEN Invalid("File size exceeds limit")
    ELSE Valid

validateFile(file, category) ==
    IF file.urlName THEN Invalid("External URLs not allowed")
    ELSE IF ~validateMimeType(file, category).valid
    THEN validateMimeType(file, category)
    ELSE IF ~validateFileSize(file, category).valid
    THEN validateFileSize(file, category)
    ELSE IF ~validateFileSignature(file.head, file.type)
    THEN Invalid("File content does not match declared type")
    ELSE Valid

(***************************************************************************)
(* lib/validation.js, sanitizeFilename.  A file name is a sequence of      *)
(* one-character strings.                                                  *)
(***************************************************************************)
\* .replace(/\.\.\//g, ''): the matches are found left to right in the
\* string as it was, what a removal brings together is not looked at again
Matches(name) ==
    {index \in 1..(Len(name) - 2) :
        SubSeq(name, index, index + 2) = <<".", ".", "/">>}

RECURSIVE RemoveTraversal(_)
RemoveTraversal(name) ==
    IF Matches(name) = {} THEN name
    ELSE LET first == CHOOSE index \in Matches(name) :
                          \A other \in Matches(name) : index <= other IN
         SubSeq(name, 1, first - 1)
             \o RemoveTraversal(SubSeq(name, first + 3, Len(name)))

\* [a-zA-Z0-9._-], over the characters the names of this model are made of
IsSafeChar(ch) == ch \in {"a", "Z", "0", ".", "_", "-"}

\* .replace(/[^a-zA-Z0-9._-]/g, '_')
ReplaceUnsafe(name) ==
    [index \in 1..Len(name) |->
        IF IsSafeChar(name[index]) THEN name[index] ELSE "_"]

NameLimit == 100

\* .substring(0, 100)
Substring(name, limit) ==
    IF Len(name) <= limit THEN name ELSE SubSeq(name, 1, limit)

\* a sanitizeFilename that only strips "../" and truncates
sanitizeFilenameStripOnly(filename) ==
    Substring(RemoveTraversal(filename), NameLimit)

sanitizeFilename(filename) ==
    Substring(ReplaceUnsafe(RemoveTraversal(filename)), NameLimit)

(***************************************************************************)
(* lib/fileValidation.js, the validator of the guarded /api/applications   *)
(***************************************************************************)
FILE_CONFIG(category) ==
    CASE category = "image" ->
            [allowedTypes |-> {"image/jpeg", "image/jpg", "image/png", "image/webp"},
             allowedExtensions |-> {".jpg", ".jpeg", ".png", ".webp"},
             maxSize |-> 5 * MiB]
      [] category = "pdf" ->
            [allowedTypes |-> {"application/pdf"},
             allowedExtensions |-> {".pdf"},
             maxSize |-> 10 * MiB]

GuardedValidateFileType(file, category) ==
    IF file.type \notin FILE_CONFIG(category).allowedTypes
    THEN Invalid("Invalid file type")
    ELSE IF file.ext \notin FILE_CONFIG(category).allowedExtensions
    THEN Invalid("Invalid file extension")
    ELSE Valid

GuardedValidateFileSize(file, category) ==
    IF file.size > FILE_CONFIG(category).maxSize
    THEN Invalid("File size exceeds limit")
    ELSE IF file.size = 0 THEN Invalid("File is empty")
    ELSE Valid

\* the route reads the buffer first, so the signature check always runs
GuardedValidateFile(file, category) ==
    IF ~GuardedValidateFileType(file, category).valid
    THEN GuardedValidateFileType(file, category)
    ELSE IF ~GuardedValidateFileSize(file, category).valid
    THEN GuardedValidateFileSize(file, category)
    ELSE IF ~validateFileSignature(file.head, file.type)
    THEN Invalid("File content does not match the file extension")
    ELSE Valid

(***************************************************************************)
(* /api/applications checks type and size inline                           *)
(***************************************************************************)
\* photograph.type.startsWith('image/'), over the types of SampleFiles
IsImageType(type) ==
    type \in {"image/jpeg", "image/jpg", "image/png", "image/webp", "image/gif"}

\* photograph type, resume type, photograph size, resume size, in this order
InlineFileChecks(photograph, resume) ==
    IF ~IsImageType(photograph.type)
    THEN Invalid("Photograph must be an image file")
    ELSE IF resume.type # "application/pdf"
    THEN Invalid("Resume must be a PDF file")
    ELSE IF photograph.size > 5 * MiB
    THEN Invalid("Photograph size must be less than 5MB")
    ELSE IF resume.size > 10 * MiB
    THEN Invalid("Resume size must be less than 10MB")
    ELSE Valid

(***************************************************************************)
(* Origin guard.  A header or a setting is the string of a URL, kept as    *)
(* [scheme, host, path]; one that is not sent or not set is Absent, one    *)
(* that new URL() cannot parse is Malformed.  Ports are left out.          *)
(***************************************************************************)
Url(scheme, host, path) == [scheme |-> scheme, host |-> host, path |-> path]
Absent == Url("", "", "")
Malformed == Url("", "not a url", "")

\* new URL(u) throws TypeError: Invalid URL
Parses(u) == u.scheme # ""

\* process.env.NEXT_PUBLIC_APP_URL of the deployment
AppUrl == Url("https", "app.example", "")

OriginHeaders ==
    {Absent, AppUrl, Url("https", "app.example", "/"),
     Url("https", "evil.example", ""), Url("http", "localhost", ""), Malformed}
RefererHeaders ==
    {Absent, Url("https", "app.example", "/apply"),
     Url("https", "evil.example", "/x"), Malformed}

\* new URL(u).origin
UrlOrigin(u) == Url(u.scheme, u.host, "")

\* a validateOrigin that checks the headers in every mode
validateOriginInEveryMode(origin, referer, env, appUrl) ==
    IF appUrl = Absent THEN Raised("NEXT_PUBLIC_APP_URL not configured")
    ELSE IF origin = Absent /\ referer = Absent
    THEN Invalid("Missing origin and referer headers")
    ELSE IF origin = Absent /\ ~Parses(referer) THEN Raised("Invalid URL")
    ELSE IF ~Parses(appUrl) THEN Raised("Invalid URL")
    ELSE IF (IF origin # Absent THEN origin ELSE UrlOrigin(referer))
               # UrlOrigin(appUrl)
    THEN Invalid("Unauthorized origin")
    ELSE Valid

\* lib/validation.js: the origin header is compared as it was sent, the
\* referer and the application URL through new URL(..).origin
validateOrigin(origin, referer, env, appUrl) ==
    IF appUrl = Absent THEN Raised("NEXT_PUBLIC_APP_URL not configured")
    ELSE IF env = "production"
    THEN IF origin = Absent /\ referer = Absent
         THEN Invalid("Missing origin and referer headers")
         ELSE IF origin = Absent /\ ~Parses(referer) THEN Raised("Invalid URL")
         ELSE IF ~Parses(appUrl) THEN Raised("Invalid URL")
         ELSE IF (IF origin # Absent THEN origin ELSE UrlOrigin(referer))
                    # UrlOrigin(appUrl)
         THEN Invalid("Unauthorized origin")
         ELSE Valid
    ELSE Valid

\* process.env.NEXT_PUBLIC_APP_URL || 'http://localhost:3000'
GuardedAppUrl(appUrl) ==
    IF appUrl = Absent THEN Url("http", "localhost", "") ELSE appUrl

\* lib/fileValidation.js
GuardedValidateOrigin(origin, referer, env, appUrl) ==
    IF /\ origin # Absent
       /\ origin # GuardedAppUrl(appUrl)
       /\ (~Parses(origin) \/ ~Parses(GuardedAppUrl(appUrl)))
    THEN Raised("Invalid URL")
    ELSE IF /\ origin # Absent
            /\ origin # GuardedAppUrl(appUrl)
            /\ origin.host # GuardedAppUrl(appUrl).host
            /\ origin.host \notin {"localhost", "127.0.0.1"}
    THEN Invalid("Unauthorized: File uploads are only allowed from the website UI")
    ELSE IF referer = Absent /\ env = "production"
    THEN Invalid("Unauthorized: Direct uploads are not allowed")
    ELSE Valid

\* lib/validation.js: contentType.includes('multipart/form-data')
ContentTypes ==
    { <<"multipart/form-data", "; boundary=x">>, <<"application/json">>, <<>> }

validateContentType(contentType) ==
    IF \E i \in 1..Len(contentType) : contentType[i] = "multipart/form-data"
    THEN Valid
    ELSE Invalid("Content-Type must be multipart/form-data")

(***************************************************************************)
(* The three handlers as the order of their steps.  The success response   *)
(* follows the last step without an await.                                 *)
(***************************************************************************)
RouteV2 == "applications-v2"
RouteV1 == "applications"
RouteGuarded == "applications-guarded"
Routes == {RouteV2, RouteV1, RouteGuarded}

\* a handler that looks for the email before it uploads
PipelineV2DupCheckFirst ==
    <<"contentType", "origin", "connect", "parse", "formData", "files",
      "validatePhoto", "validateResume", "dupCheck", "uploadPhoto",
      "uploadResume", "save", "fileRecords">>

PipelineV2 ==
    <<"contentType", "origin", "connect", "parse", "formData", "files",
      "validatePhoto", "validateResume", "uploadPhoto", "uploadResume",
      "dupCheck", "save", "fileRecords">>

PipelineV1 ==
    <<"connect", "parse", "files", "validateFiles", "uploadPhoto",
      "uploadResume", "dupCheck", "save">>

\* a guarded handler that connects to the database before the origin guard
PipelineGuardedConnectFirst ==
    <<"connect", "origin", "parse", "files", "validatePhoto", "validateResume",
      "uploadPhoto", "uploadResume", "fileRecords", "dupCheck", "save">>

PipelineGuarded ==
    <<"origin", "connect", "parse", "files", "validatePhoto", "validateResume",
      "uploadPhoto", "uploadResume", "fileRecords", "dupCheck", "save">>

Pipeline(route) ==
    CASE route = RouteV2 -> PipelineV2
      [] route = RouteV1 -> PipelineV1
      [] route = RouteGuarded -> PipelineGuarded

IndexOf(seq, x) == CHOOSE i \in 1..Len(seq) : seq[i] = x

IsLastStep(route, step) == Pipeline(route)[Len(Pipeline(route))] = step

\* a handler whose database query never settles: it stays awaiting
NextStepAwaitingForever(route, step) ==
    IF Pipeline(route)[IndexOf(Pipeline(route), step) + 1] = "dupCheck"
    THEN "awaiting"
    ELSE Pipeline(route)[IndexOf(Pipeline(route), step) + 1]

NextStep(route, step) == Pipeline(route)[IndexOf(Pipeline(route), step) + 1]

(***************************************************************************)
(* Request records                                                         *)
(***************************************************************************)
NoEmail == <<>>

IdleRequest ==
    [route |-> "none", pc |-> "idle", email |-> NoEmail, appId |-> 0,
     resp |-> NoResponse, nresp |-> 0, threw |-> NoError, log |-> <<>>,
     calls |-> <<>>, reads |-> [photograph |-> <<>>, resume |-> <<>>],
     sent |-> <<>>, text |-> <<>>]

At(r, step) == req[r].pc = step

\* the step at which the request stands is started
Started(q) == [q EXCEPT !.log = Append(@, q.pc)]

\* a handler that builds the response but does not return
RespondedAndWentOn(q, response) ==
    [q EXCEPT !.pc = IF IsLastStep(q.route, q.pc) THEN "done"
                     ELSE NextStep(q.route, q.pc),
              !.resp = response, !.nresp = @ + 1]

\* return <response>
Responded(q, response) ==
    [q EXCEPT !.pc = "done", !.resp = response, !.nresp = @ + 1]

\* an awaited call threw <error> and the catch block returns <response>
Threw(q, error, response) == [Responded(q, response) EXCEPT !.threw = error]

\* application.emailAddress: the field of the document, set by the setters
\* of the schema
DocumentEmail(email) == EmailSetter(email)

\* a 201 response that echoes the address as the form carried it
SuccessResponseEchoingForm(q) ==
    IF q.route = RouteV2
    THEN createSuccessResponse([applicationId |-> q.appId, email |-> q.email], 201)
    ELSE With(With(JsonResponse(201, "none", "Application submitted successfully"),
                   "applicationId", q.appId),
              "data", [email |-> q.email])

\* the 201 response: applications-v2 puts applicationId and email in data,
\* the other two handlers put applicationId beside data
SuccessResponse(q) ==
    IF q.route = RouteV2
    THEN createSuccessResponse([applicationId |-> q.appId,
                                email |-> DocumentEmail(q.email)], 201)
    ELSE With(With(JsonResponse(201, "none", "Application submitted successfully"),
                   "applicationId", q.appId),
              "data", [email |-> DocumentEmail(q.email)])

\* the step succeeded: go on to the next one, or return the 201 response
Continued(q) ==
    IF IsLastStep(q.route, q.pc)
    THEN [Responded(q, SuccessResponse(q)) EXCEPT !.log = Append(@, "respond")]
    ELSE [q EXCEPT !.pc = NextStep(q.route, q.pc)]

\* the messages of the failed paths from the i-th path of the schema on,
\* each preceded by ', '
RECURSIVE MessagesFrom(_, _)
MessagesFrom(errors, i) ==
    IF i > Len(SchemaPaths) THEN ""
    ELSE IF SchemaPaths[i] \in DOMAIN errors
         THEN ", " \o errors[SchemaPaths[i]] \o MessagesFrom(errors, i + 1)
         ELSE MessagesFrom(errors, i + 1)

\* the index of the first failed path
FirstFailed(errors) ==
    CHOOSE i \in 1..Len(SchemaPaths) :
        /\ SchemaPaths[i] \in DOMAIN errors
        /\ \A j \in 1..(i - 1) : SchemaPaths[j] \notin DOMAIN errors

\* Object.values(error.errors).map(err => err.message).join(', ')
JoinedMessages(errors) ==
    IF DOMAIN errors = {} THEN ""
    ELSE errors[SchemaPaths[FirstFailed(errors)]]
            \o MessagesFrom(errors, FirstFailed(errors) + 1)

\* an outer catch block that does not tell a ValidationError from the rest
CaughtWithoutValidationCase(route, error) ==
    IF route = RouteV2
    THEN createErrorResponse("INTERNAL_ERROR", "An unexpected error occurred",
                             IF nodeEnv = "development"
                             THEN [error |-> "error.message"] ELSE Null)
    ELSE DatabaseErrorResponse(error)

\* the outer catch block of the handler
Caught(route, error) ==
    IF route = RouteV2
    THEN IF error.name = "ValidationError"
         THEN createErrorResponse("VALIDATION_FAILED", JoinedMessages(error.errors),
                                  Null)
         ELSE createErrorResponse("INTERNAL_ERROR", "An unexpected error occurred",
                                  IF nodeEnv = "development"
                                  THEN [error |-> "error.message"] ELSE Null)
    ELSE IF error.name = "ValidationError"
         THEN With(JsonResponse(400, "DATABASE_WRITE", "Validation error"),
                   "hint", "Check that all required fields are filled correctly")
         ELSE DatabaseErrorResponse(error)

(***************************************************************************)
(* The document store and the object store                                 *)
(***************************************************************************)
\* formData.get(name): the characters of the string, or null when the form
\* has no such field
Text(chars) == [null |-> FALSE, chars |-> chars]
Missing == [null |-> TRUE, chars |-> <<>>]

Digits == {"0", "1", "2", "3", "4", "5", "6", "7", "8", "9"}
DigitValue(c) == CHOOSE n \in 0..9 : ToString(n) = c

\* the longest run of digits a string starts with
RECURSIVE DigitsPrefix(_)
DigitsPrefix(s) ==
    IF s # <<>> /\ Head(s) \in Digits
    THEN <<Head(s)>> \o DigitsPrefix(Tail(s))
    ELSE <<>>

RECURSIVE DecimalValue(_)
DecimalValue(ds) ==
    IF ds = <<>> THEN 0
    ELSE 10 * DecimalValue(SubSeq(ds, 1, Len(ds) - 1)) + DigitValue(ds[Len(ds)])

\* a JavaScript number: NaN, or a value
NaN == [nan |-> TRUE, value |-> 0]
Number(n) == [nan |-> FALSE, value |-> n]

Signed(s) == s # <<>> /\ Head(s) \in {"-", "+"}
Unsigned(s) == IF Signed(s) THEN Tail(s) ELSE s

\* parseInt(value): white space in front is skipped, then a sign and the
\* longest run of digits are read; NaN when there is no digit (String(null)
\* is 'null')
parseInt(value) ==
    IF value.null THEN NaN
    ELSE LET s == TrimStart(value.chars)
             ds == DigitsPrefix(Unsigned(s)) IN
         IF ds = <<>> THEN NaN
         ELSE IF s # <<>> /\ Head(s) = "-" THEN Number(0 - DecimalValue(ds))
         ELSE Number(DecimalValue(ds))

\* parseFloat(value), in tenths: as parseInt, with a fraction after '.'.
\* The form values of this model have at most one digit after the point.
parseFloat(value) ==
    IF value.null THEN NaN
    ELSE LET s == TrimStart(value.chars)
             ds == DigitsPrefix(Unsigned(s))
             rest == SubSeq(Unsigned(s), Len(ds) + 1, Len(Unsigned(s)))
             frac == IF rest # <<>> /\ Head(rest) = "."
                     THEN DigitsPrefix(Tail(rest)) ELSE <<>>
             tenths == 10 * DecimalValue(ds)
                          + (IF frac = <<>> THEN 0 ELSE DigitValue(frac[1])) IN
         IF ds = <<>> /\ frac = <<>> THEN NaN
         ELSE IF s # <<>> /\ Head(s) = "-" THEN Number(0 - tenths)
         ELSE Number(tenths)

\* the year in which the schema is compiled and the requests are served
CurrentYear == 2026

\* const applicationData = { ... }: the fields of the form that the schema
\* validates with more than 'required'; careerGap is in tenths of a year
applicationData(form) ==
    [age |-> parseInt(form.age),
     mobileNumber |-> form.mobileNumber,
     yearOfPassing |-> parseInt(form.yearOfPassing),
     careerGap |-> IF parseFloat(form.careerGap) \in {NaN, Number(0)}
                   THEN Number(0)
                   ELSE parseFloat(form.careerGap),
     declarationAccepted |-> (form.declarationAccepted = Text(<<"t", "r", "u", "e">>))]

\* /^[0-9]{10}$/
IsTenDigits(value) ==
    /\ Len(value) = 10
    /\ \A i \in 1..Len(value) : value[i] \in Digits

\* the validators of ApplicationSchema that a document fails, with their
\* messages: NaN is not cast to a Number, min and max of the Number paths,
\* required and match of mobileNumber, the validator of declarationAccepted
CastFailed(path) == "Cast to Number failed for value NaN at path " \o path

AgeErrors(data) ==
    CASE data.age.nan -> [age |-> CastFailed("age")]
      [] ~data.age.nan /\ data.age.value < 18 -> [age |-> "Minimum age is 18"]
      [] ~data.age.nan /\ data.age.value > 100 -> [age |-> "Maximum age is 100"]
      [] OTHER -> <<>>

MobileNumberErrors(data) ==
    CASE data.mobileNumber.null \/ data.mobileNumber.chars = <<>> ->
            [mobileNumber |-> "Mobile number is required"]
      [] ~data.mobileNumber.null /\ data.mobileNumber.chars # <<>>
            /\ ~IsTenDigits(data.mobileNumber.chars) ->
            [mobileNumber |-> "Please enter a valid 10-digit mobile number"]
      [] OTHER -> <<>>

\* a schema whose yearOfPassing has no upper limit
YearOfPassingErrorsWithoutMax(data) ==
    CASE data.yearOfPassing.nan ->
            [yearOfPassing |-> CastFailed("yearOfPassing")]
      [] ~data.yearOfPassing.nan /\ data.yearOfPassing.value < 1950 ->
            [yearOfPassing |-> "Year must be after 1950"]
      [] OTHER -> <<>>

YearOfPassingErrors(data) ==
    CASE data.yearOfPassing.nan ->
            [yearOfPassing |-> CastFailed("yearOfPassing")]
      [] ~data.yearOfPassing.nan /\ data.yearOfPassing.value < 1950 ->
            [yearOfPassing |-> "Year must be after 1950"]
      [] ~data.yearOfPassing.nan
            /\ data.yearOfPassing.value > CurrentYear + 5 ->
            [yearOfPassing |-> "Year cannot be more than 5 years in the future"]
      [] OTHER -> <<>>

CareerGapErrors(data) ==
    IF data.careerGap.value < 0 THEN [careerGap |-> "Career gap cannot be negative"]
    ELSE <<>>

DeclarationErrors(data) ==
    IF data.declarationAccepted = TRUE THEN <<>>
    ELSE [declarationAccepted |->
            "Declaration must be accepted to submit the application"]

\* document.validate(): error.errors, empty when the document is valid
ValidationErrors(data) ==
    AgeErrors(data) @@ MobileNumberErrors(data) @@ YearOfPassingErrors(data)
        @@ CareerGapErrors(data) @@ DeclarationErrors(data)

\* new Application(data): the schema setters and defaults; status is not in
\* applicationData and takes its default
ApplicationDocument(id, email, data) ==
    [id |-> id, emailAddress |-> EmailSetter(email), status |-> "pending",
     age |-> data.age.value, mobileNumber |-> data.mobileNumber.chars,
     yearOfPassing |-> data.yearOfPassing.value,
     careerGap |-> data.careerGap.value,
     declarationAccepted |-> data.declarationAccepted]

\* a form whose fields pass every validator, and the same form with the
\* declaration not ticked
ValidForm ==
    [age |-> Text(<<"2", "5">>),
     mobileNumber |-> Text(<<"9", "8", "7", "6", "5", "4", "3", "2", "1", "0">>),
     yearOfPassing |-> Text(<<"2", "0", "2", "0">>),
     careerGap |-> Text(<<"0">>),
     declarationAccepted |-> Text(<<"t", "r", "u", "e">>)]
UndeclaredForm ==
    [ValidForm EXCEPT !.declarationAccepted = Text(<<"f", "a", "l", "s", "e">>)]
TypicalForms == {ValidForm, UndeclaredForm}

\* the document of a request that submitted the valid form
NewApplication(id, email) ==
    ApplicationDocument(id, email, applicationData(ValidForm))

\* Application.findOne({ emailAddress }): the filter is cast with the setters
FindOneByEmail(coll, email) ==
    {a \in coll : a.emailAddress = EmailSetter(email)}

\* a collection without the unique index on emailAddress
NoUniqueIndex(coll, doc) == TRUE

\* ApplicationSchema.index({ emailAddress: 1 }, { unique: true })
EmailIndexAccepts(coll, doc) ==
    \A a \in coll : a.emailAddress # doc.emailAddress

\* FileUploadSchema.index({ cloudinaryPublicId: 1 }, { unique: true })
PublicIdIndexAccepts(coll, doc) ==
    \A f \in coll : f.publicId # doc.publicId

\* the public_id the provider gave an upload: a new one, or for a raw
\* upload also one that another raw upload carries
KindNo(kind) == IF kind = "photograph" THEN 0 ELSE 1
FreshId(r, kind) == 2 * r + KindNo(kind)
SharedId == FreshId(0, "resume")
ProviderIds(r, kind) ==
    IF kind = "photograph" THEN {FreshId(r, kind)}
    ELSE {FreshId(r, kind), SharedId}

\* the _id of a new FileUpload document, and a deletedAt that is not set
FileId(r, kind) == FreshId(r, kind)
Undefined == "undefined"

\* new FileUpload({...}): status is 'active', deletedAt has no default
NewFileUpload(r, kind, publicId, relatedEntityId) ==
    [id |-> FileId(r, kind), publicId |-> publicId, by |-> r, kind |-> kind,
     relatedEntityId |-> relatedEntityId, status |-> "active",
     deletedAt |-> Undefined]

\* one FileUpload document is written unless validation or the store fails
\* or the unique index rejects it
FileRecordWrite(coll, doc, ok) ==
    IF ok /\ PublicIdIndexAccepts(coll, doc) THEN coll \cup {doc} ELSE coll

(***************************************************************************)
(* Steps of the handlers                                                   *)
(***************************************************************************)
Arrive(r) ==
    /\ At(r, "idle")
    /\ IF r = 1 THEN TRUE ELSE ~At(r - 1, "idle")
    /\ req' = [req EXCEPT ![r] =
                 [IdleRequest EXCEPT !.route = endpoint,
                                     !.pc = Pipeline(endpoint)[1]]]
    /\ UNCHANGED <<nodeEnv, endpoint, headers, applications, fileUploads, cloud>>
    /\ UNCHANGED <<connVars, fnVars>>

\* applications-v2 step 1
ContentTypeStep(r) ==
    /\ At(r, "contentType")
    /\ \E contentType \in ContentTypes :
         LET q == Started(req[r])
             v == validateContentType(contentType) IN
         req' = [req EXCEPT ![r] =
                   IF v.valid THEN Continued(q)
                   ELSE Responded(q, createErrorResponse("INVALID_REQUEST", v.error,
                                                         Null))]
    /\ UNCHANGED <<nodeEnv, endpoint, headers, applications, fileUploads, cloud>>
    /\ UNCHANGED <<connVars, fnVars>>

\* the headers a request carries: any, unless the run fixes them
AnyHeader == Url("*", "*", "*")
AnyHeaders == [origin |-> AnyHeader, referer |-> AnyHeader]
SentOrigins == IF headers = AnyHeaders THEN OriginHeaders ELSE {headers.origin}
SentReferers == IF headers = AnyHeaders THEN RefererHeaders ELSE {headers.referer}

\* applications-v2 step 2, guarded step 0; what validateOrigin throws
\* reaches the outer catch
OriginStep(r) ==
    /\ At(r, "origin")
    /\ \E origin \in SentOrigins, referer \in SentReferers :
         LET q == Started(req[r])
             v == IF q.route = RouteV2
                  THEN validateOrigin(origin, referer, nodeEnv, AppUrl)
                  ELSE GuardedValidateOrigin(origin, referer, nodeEnv, AppUrl) IN
         req' = [req EXCEPT ![r] =
                   IF v.valid THEN Continued(q)
                   ELSE IF IsRaised(v)
                   THEN Threw(q, PlainError, Caught(q.route, PlainError))
                   ELSE IF q.route = RouteV2
                   THEN Responded(q, createErrorResponse("ORIGIN_BLOCKED", v.error,
                                                         Null))
                   ELSE Responded(q,
                          With(JsonResponse(403, "ORIGIN_VALIDATION_FAILED", v.error),
                               "hint",
                               "File uploads must be initiated from the website UI"))]
    /\ UNCHANGED <<nodeEnv, endpoint, headers, applications, fileUploads, cloud>>
    /\ UNCHANGED <<connVars, fnVars>>

\* await connectDB(): applications-v2 lets the error reach the outer catch,
\* the other two answer from their own catch
ConnectStep(r) ==
    /\ At(r, "connect")
    /\ LET q == Started(req[r]) IN
       \/ req' = [req EXCEPT ![r] = Continued(q)]
       \/ \E error \in StoreErrors :
            req' = [req EXCEPT ![r] =
                      IF q.route = RouteV2
                      THEN Threw(q, error, Caught(q.route, error))
                      ELSE Threw(q, error, DatabaseErrorResponse(error))]
    /\ UNCHANGED <<nodeEnv, endpoint, headers, applications, fileUploads, cloud>>
    /\ UNCHANGED <<connVars, fnVars>>

\* await request.formData()
ParseStep(r) ==
    /\ At(r, "parse")
    /\ LET q == Started(req[r]) IN
       \/ req' = [req EXCEPT ![r] = Continued(q)]
       \/ req' = [req EXCEPT ![r] = Threw(q, PlainError, Caught(q.route, PlainError))]
    /\ UNCHANGED <<nodeEnv, endpoint, headers, applications, fileUploads, cloud>>
    /\ UNCHANGED <<connVars, fnVars>>

\* a test of the pattern that tells capitals from small letters
containsExternalUrlCaseSensitive(value) ==
    /\ Len(value) >= 2
    /\ value[1] \in {"http", "https"}
    /\ value[2] = "://"

\* containsExternalUrl: /^https?:\/\//i.test(value), for a string
containsExternalUrl(value) ==
    /\ Len(value) >= 2
    /\ ToLowerCase(value)[1] \in {"http", "https"}
    /\ ToLowerCase(value)[2] = "://"

\* the fields that may hold a URL
UrlFields == {"linkedinUrl", "githubUrl", "portfolioUrl"}

\* the text entries of the form that validateFormData turns down, in the
\* order of formData.entries()
Unauthorized(entries) ==
    {i \in DOMAIN entries :
        containsExternalUrl(entries[i].value) /\ entries[i].key \notin UrlFields}

\* validateFormData: the first entry with a URL outside the URL fields
validateFormData(entries) ==
    IF Unauthorized(entries) = {} THEN Valid
    ELSE LET first == CHOOSE i \in Unauthorized(entries) :
                          \A j \in Unauthorized(entries) : i <= j IN
         Invalid("Field \"" \o entries[first].key \o "\" contains unauthorized URL")

\* the text entries of a form: three fields in the order of the form, the
\* second one of the URL fields
Entry(key, value) == [key |-> key, value |-> value]
CleanText ==
    <<Entry("fullName", <<"Bob">>),
      Entry("linkedinUrl", <<"https", "://", "x.io">>),
      Entry("city", <<"Pune">>)>>
TypicalTexts ==
    {CleanText, [CleanText EXCEPT ![1].value = <<"http", "://", "x.io">>]}

\* applications-v2 step 5: validateFormData(formData)
FormDataOf(r, texts) ==
    /\ At(r, "formData")
    /\ \E text \in texts :
         LET q == [Started(req[r]) EXCEPT !.text = text]
             v == validateFormData(text) IN
         req' = [req EXCEPT ![r] =
                   IF ~v.valid
                   THEN Responded(q, createErrorResponse("INVALID_REQUEST",
                                                         v.error, Null))
                   ELSE Continued(q)]
    /\ UNCHANGED <<nodeEnv, endpoint, headers, applications, fileUploads, cloud>>
    /\ UNCHANGED <<connVars, fnVars>>

\* the step of a request whose text is one of the two typical ones
FormDataStep(r) == FormDataOf(r, TypicalTexts)

\* if (!photograph || !resume)
FilesStep(r) ==
    /\ At(r, "files")
    /\ \E photograph \in BOOLEAN, resume \in BOOLEAN :
         LET q == Started(req[r]) IN
         req' = [req EXCEPT ![r] =
                   IF photograph /\ resume THEN Continued(q)
                   ELSE IF q.route = RouteV1
                   THEN Responded(q, JsonResponse(400, "none",
                                        "Photograph and resume are required"))
                   ELSE IF q.route = RouteV2
                   THEN Responded(q, createErrorResponse("MISSING_FILES",
                                        "Both photograph and resume are required",
                                        Null))
                   ELSE Responded(q,
                          With(JsonResponse(400, "MISSING_FILES",
                                            "Photograph and resume are required"),
                               "hint",
                               "Please upload both photograph and resume files"))]
    /\ UNCHANGED <<nodeEnv, endpoint, headers, applications, fileUploads, cloud>>
    /\ UNCHANGED <<connVars, fnVars>>

\* a handler that does not say which file was turned down
InvalidFileResponseUnnamed(route, v, field) ==
    IF route = RouteV2
    THEN createErrorResponse("INVALID_FILE_TYPE", v.error, Null)
    ELSE With(JsonResponse(400, "INVALID_FILE_TYPE", v.error),
              "hint", "Allowed formats and max size")

\* applications-v2 names the field in details, the guarded handler names it
\* as the category of its details and adds a hint
InvalidFileResponse(route, v, field) ==
    IF route = RouteV2
    THEN createErrorResponse("INVALID_FILE_TYPE", v.error, [field |-> field])
    ELSE With(With(JsonResponse(400, "INVALID_FILE_TYPE", v.error),
                   "details", [category |-> field]),
              "hint", "Allowed formats and max size")

\* await file.arrayBuffer() in the validation of a file: the buffer that is
\* read is 'checked' when the signature check ran on it and passed,
\* 'rejected' when it ran and failed, 'unchecked' when it did not run.
\* validateFile of applications-v2 reads the content after the name, type
\* and size checks; the guarded handler reads it before it validates.
BufferRead(q, kind, file, v) ==
    LET reached ==
            IF q.route = RouteV2
            THEN /\ ~file.urlName
                 /\ validateMimeType(file, IF kind = "photograph" THEN "IMAGE"
                                           ELSE "PDF").valid
                 /\ validateFileSize(file, IF kind = "photograph" THEN "IMAGE"
                                           ELSE "PDF").valid
            ELSE /\ GuardedValidateFileType(file, IF kind = "photograph"
                                                  THEN "image" ELSE "pdf").valid
                 /\ GuardedValidateFileSize(file, IF kind = "photograph"
                                                  THEN "image" ELSE "pdf").valid
        outcome == IF ~reached THEN "unchecked"
                   ELSE IF v.valid THEN "checked" ELSE "rejected" IN
    IF q.route = RouteV2 /\ ~reached THEN q
    ELSE [q EXCEPT !.reads[kind] = Append(@, outcome)]

ValidatePhotoStep(r) ==
    /\ At(r, "validatePhoto")
    /\ \E file \in SampleFiles :
         LET v == IF req[r].route = RouteV2 THEN validateFile(file, "IMAGE")
                  ELSE GuardedValidateFile(file, "image")
             q == BufferRead(Started(req[r]), "photograph", file, v) IN
         req' = [req EXCEPT ![r] =
                   IF v.valid THEN Continued(q)
                   ELSE Responded(q, InvalidFileResponse(q.route, v, "photograph"))]
    /\ UNCHANGED <<nodeEnv, endpoint, headers, applications, fileUploads, cloud>>
    /\ UNCHANGED <<connVars, fnVars>>

ValidateResumeStep(r) ==
    /\ At(r, "validateResume")
    /\ \E file \in SampleFiles :
         LET v == IF req[r].route = RouteV2 THEN validateFile(file, "PDF")
                  ELSE GuardedValidateFile(file, "pdf")
             q == BufferRead(Started(req[r]), "resume", file, v) IN
         req' = [req EXCEPT ![r] =
                   IF v.valid THEN Continued(q)
                   ELSE Responded(q, InvalidFileResponse(q.route, v, "resume"))]
    /\ UNCHANGED <<nodeEnv, endpoint, headers, applications, fileUploads, cloud>>
    /\ UNCHANGED <<connVars, fnVars>>

\* /api/applications validates both files inline
ValidateFilesStep(r) ==
    /\ At(r, "validateFiles")
    /\ \E photograph \in SampleFiles, resume \in SampleFiles :
         LET q == Started(req[r])
             v == InlineFileChecks(photograph, resume) IN
         req' = [req EXCEPT ![r] =
                   IF v.valid THEN Continued(q)
                   ELSE Responded(q, JsonResponse(400, "none", v.error))]
    /\ UNCHANGED <<nodeEnv, endpoint, headers, applications, fileUploads, cloud>>
    /\ UNCHANGED <<connVars, fnVars>>

UploadFailedMessage(kind) ==
    IF kind = "photograph" THEN "Failed to upload photograph"
    ELSE "Failed to upload resume"

UploadFailedResponse(route, kind) ==
    IF route = RouteV2
    THEN createErrorResponse("CLOUDINARY_UPLOAD_FAILED", UploadFailedMessage(kind),
                             [cloudinaryError |-> "error.message"])
    ELSE IF route = RouteV1
    THEN JsonResponse(500, "none", UploadFailedMessage(kind))
    ELSE With(With(JsonResponse(500, "CLOUDINARY_UPLOAD_FAILED",
                                UploadFailedMessage(kind)),
                   "details", [error |-> "error.message"]),
              "hint", "Please try again or contact support if the issue persists")

\* what cloudinary.uploader.upload can do with one call
ProviderOutcomes == {"stored", "rejected"}

\* Buffer.from(buffer): the buffer the handler has for the upload.
\* /api/applications reads the file here for the first time.
BufferForUpload(q, kind) ==
    IF q.route = RouteV1
    THEN [q EXCEPT !.reads[kind] = Append(@, "unchecked")]
    ELSE q

\* a handler that reads the file once more for the upload
ProviderCalledWithNewRead(q, kind) ==
    [q EXCEPT !.calls = Append(@, kind),
              !.reads[kind] = Append(@, "unchecked"),
              !.sent = Append(@, [kind |-> kind, read |-> Len(q.reads[kind]) + 1])]

\* the request after one call of cloudinary.uploader.upload for <kind>,
\* which is sent the last buffer read from the file
ProviderCalled(q, kind) ==
    [BufferForUpload(q, kind) EXCEPT
        !.calls = Append(@, kind),
        !.sent = Append(@, [kind |-> kind,
                            read |-> Len(BufferForUpload(q, kind).reads[kind])])]

\* uploadToCloudinary: the provider's result on success, and its exception
\* caught and returned as { success: false, error }
uploadToCloudinary(outcome) ==
    IF outcome = "stored" THEN [success |-> TRUE, error |-> "none"]
    ELSE [success |-> FALSE, error |-> "error.message"]

\* a handler that deletes what it uploaded when an upload fails
UploadRollingBack(r, kind) ==
    \E outcome \in ProviderOutcomes :
        LET q == ProviderCalled(Started(req[r]), kind)
            result == uploadToCloudinary(outcome) IN
        IF result.success
        THEN /\ cloud' = cloud \cup {[by |-> r, kind |-> kind]}
             /\ req' = [req EXCEPT ![r] = Continued(q)]
        ELSE /\ cloud' = {o \in cloud : o.by # r}
             /\ req' = [req EXCEPT ![r] =
                          Responded(q, UploadFailedResponse(q.route, kind))]

\* an upload that calls the provider a second time when the first call fails
UploadRetrying(r, kind) ==
    \E first \in ProviderOutcomes, second \in ProviderOutcomes :
        LET q1 == ProviderCalled(Started(req[r]), kind)
            q == IF first = "stored" THEN q1 ELSE ProviderCalled(q1, kind)
            result == uploadToCloudinary(IF first = "stored" THEN first ELSE second) IN
        IF result.success
        THEN /\ cloud' = cloud \cup {[by |-> r, kind |-> kind]}
             /\ req' = [req EXCEPT ![r] = Continued(q)]
        ELSE /\ cloud' = cloud
             /\ req' = [req EXCEPT ![r] =
                          Responded(q, UploadFailedResponse(q.route, kind))]

\* await uploadToCloudinary(...) and if (!result.success) return the failure
\* response: one call to the provider per upload
Upload(r, kind) ==
    \E outcome \in ProviderOutcomes :
        LET q == ProviderCalled(Started(req[r]), kind)
            result == uploadToCloudinary(outcome) IN
        IF result.success
        THEN /\ cloud' = cloud \cup {[by |-> r, kind |-> kind]}
             /\ req' = [req EXCEPT ![r] = Continued(q)]
        ELSE /\ cloud' = cloud
             /\ req' = [req EXCEPT ![r] =
                          Responded(q, UploadFailedResponse(q.route, kind))]

UploadPhotoStep(r) ==
    /\ At(r, "uploadPhoto")
    /\ Upload(r, "photograph")
    /\ UNCHANGED <<nodeEnv, endpoint, headers, applications, fileUploads>>
    /\ UNCHANGED <<connVars, fnVars>>

UploadResumeStep(r) ==
    /\ At(r, "uploadResume")
    /\ Upload(r, "resume")
    /\ UNCHANGED <<nodeEnv, endpoint, headers, applications, fileUploads>>
    /\ UNCHANGED <<connVars, fnVars>>

DuplicateEmailResponse(route) ==
    IF route = RouteV2
    THEN createErrorResponse("VALIDATION_FAILED",
                             "Application with this email already exists", Null)
    ELSE JsonResponse(409, "none",
                      "An application with this email address already exists")

\* a handler that deletes the objects it uploaded when the address is taken
DupCheckStepCleaningUp(r) ==
    /\ At(r, "dupCheck")
    /\ \E email \in RawEmails :
         LET q == [Started(req[r]) EXCEPT !.email = email] IN
         \/ /\ FindOneByEmail(applications, q.email) # {}
            /\ req' = [req EXCEPT ![r] =
                         Responded(q, DuplicateEmailResponse(q.route))]
            /\ cloud' = {o \in cloud : o.by # r}
         \/ /\ FindOneByEmail(applications, q.email) = {}
            /\ req' = [req EXCEPT ![r] = Continued(q)]
            /\ cloud' = cloud
         \/ \E error \in QueryErrors :
              /\ req' = [req EXCEPT ![r] = Threw(q, error, Caught(q.route, error))]
              /\ cloud' = {o \in cloud : o.by # r}
    /\ UNCHANGED <<nodeEnv, endpoint, headers, applications, fileUploads>>
    /\ UNCHANGED <<connVars, fnVars>>

\* formData.get('emailAddress'), the first use of the field, and
\* await Application.findOne({ emailAddress })
DupCheckStep(r) ==
    /\ At(r, "dupCheck")
    /\ \E email \in RawEmails :
         LET q == [Started(req[r]) EXCEPT !.email = email] IN
         \/ req' = [req EXCEPT ![r] =
                      IF FindOneByEmail(applications, q.email) # {}
                      THEN Responded(q, DuplicateEmailResponse(q.route))
                      ELSE Continued(q)]
         \/ \E error \in QueryErrors :
              req' = [req EXCEPT ![r] = Threw(q, error, Caught(q.route, error))]
    /\ UNCHANGED <<nodeEnv, endpoint, headers, applications, fileUploads, cloud>>
    /\ UNCHANGED <<connVars, fnVars>>

\* a handler that answers a failed save as if the record had been written
SaveErrorAnsweredAsSuccess(route, error) ==
    createSuccessResponse([applicationId |-> 0, email |-> NoEmail], 201)

\* the answer to an error thrown by application.save(): applications-v2 has
\* only the outer catch, the other two classify it in a catch of their own
SaveErrorResponse(route, error) ==
    IF route = RouteV2 THEN Caught(route, error) ELSE DatabaseErrorResponse(error)

\* new Application(data); await application.save(): schema validation, then
\* the insert, which the unique index can reject
SaveOf(r, forms) ==
    /\ At(r, "save")
    /\ \E form \in forms :
       \E data \in {applicationData(form)} :
       \E errors \in {ValidationErrors(data)} :
       LET q == Started(req[r]) IN
       \E doc \in {ApplicationDocument(r, q.email, data)} :
         \/ /\ DOMAIN errors # {}
            /\ req' = [req EXCEPT ![r] =
                         Threw(q, SchemaValidationError(errors),
                               SaveErrorResponse(q.route,
                                                 SchemaValidationError(errors)))]
            /\ applications' = applications
         \/ /\ DOMAIN errors = {}
            /\ ~EmailIndexAccepts(applications, doc)
            /\ req' = [req EXCEPT ![r] =
                         Threw(q, DuplicateKeyError(doc.emailAddress),
                               SaveErrorResponse(q.route,
                                   DuplicateKeyError(doc.emailAddress)))]
            /\ applications' = applications
         \/ /\ DOMAIN errors = {}
            /\ EmailIndexAccepts(applications, doc)
            /\ applications' = applications \cup {doc}
            /\ req' = [req EXCEPT ![r] = Continued([q EXCEPT !.appId = doc.id])]
         \/ \E error \in QueryErrors :
              /\ req' = [req EXCEPT ![r] =
                           Threw(q, error, SaveErrorResponse(q.route, error))]
              /\ applications' = applications
    /\ UNCHANGED <<nodeEnv, endpoint, headers, fileUploads, cloud>>
    /\ UNCHANGED <<connVars, fnVars>>

\* the save of a request whose form is one of the two typical ones
SaveStep(r) == SaveOf(r, TypicalForms)

\* a handler without the try/catch around the file records
FileErrorRethrown(q, saved) ==
    IF saved THEN Continued(q) ELSE Threw(q, PlainError, Caught(q.route, PlainError))

\* try { ...file records... } catch (fileError) { log only }: the handler
\* goes on whether or not the records were saved
AfterFileRecords(q, saved) == Continued(q)

\* applications-v2: FileUpload.create([photograph, resume]) saves both
\* documents; guarded: the resume record is saved after the photograph
\* record, inside one try.  Either way the catch swallows the error.
\* photographUpload.publicId and resumeUpload.publicId are first used here.
FileRecordsStep(r) ==
    /\ At(r, "fileRecords")
    /\ \E okPhoto \in BOOLEAN, okResume \in BOOLEAN,
          photoId \in ProviderIds(r, "photograph"),
          resumeId \in ProviderIds(r, "resume") :
         LET q == Started(req[r])
             photo == NewFileUpload(r, "photograph", photoId, q.appId)
             resume == NewFileUpload(r, "resume", resumeId, q.appId)
             afterPhoto == FileRecordWrite(fileUploads, photo, okPhoto)
             photoSaved == afterPhoto # fileUploads
             afterResume ==
                 IF q.route = RouteGuarded /\ ~photoSaved THEN afterPhoto
                 ELSE FileRecordWrite(afterPhoto, resume, okResume) IN
         /\ fileUploads' = afterResume
         /\ req' = [req EXCEPT ![r] =
                      AfterFileRecords(q, {photo, resume} \subseteq afterResume)]
    /\ UNCHANGED <<nodeEnv, endpoint, headers, applications, cloud>>
    /\ UNCHANGED <<connVars, fnVars>>

(***************************************************************************)
(* lib/mongodb.js: connectDB and the cache global.mongoose.                *)
(*                                                                         *)
(* cached.promise is mongoose.connect(..).then(onConnected).catch(onError). *)
(* A call of connectDB comes from a request, a task of the event loop;     *)
(* the promise reactions that follow the end of a connection attempt are   *)
(* micro tasks, which run in the order they were queued and before the     *)
(* next task.                                                              *)
(***************************************************************************)
Callers == 1..MaxCallers
Attempts == 1..MaxAttempts

NoAttempt == [connect |-> "none", promise |-> "pending", waiters |-> <<>>]
IdleCaller == [pc |-> "idle", awaits |-> 0, result |-> 0]

InFlight == {k \in Attempts : attempt[k].connect = "pending"}

\* a connectDB that does not look at cached.promise
AlwaysStartsAttempt == TRUE

\* if (!cached.promise)
StartsAttempt == cached.promise = 0

FreeAttempt == CHOOSE k \in Attempts :
                   /\ attempt[k].connect = "none"
                   /\ \A j \in Attempts : attempt[j].connect = "none" => k <= j

\* connectDB() up to its first await
ConnectDB(c) ==
    /\ jobs = <<>>
    /\ caller[c].pc = "idle"
    /\ IF cached.conn # 0
       THEN /\ caller' = [caller EXCEPT ![c] =
                            [pc |-> "returned", awaits |-> 0, result |-> cached.conn]]
            /\ UNCHANGED <<cached, attempt, jobs>>
       ELSE /\ StartsAttempt => \E k \in Attempts : attempt[k].connect = "none"
            /\ LET k == IF StartsAttempt THEN FreeAttempt ELSE cached.promise
                   started == IF StartsAttempt
                              THEN [attempt EXCEPT ![k].connect = "pending"]
                              ELSE attempt IN
               /\ cached' = [cached EXCEPT !.promise = k]
               /\ caller' = [caller EXCEPT ![c] =
                               [pc |-> "awaiting", awaits |-> k, result |-> 0]]
               /\ IF started[k].promise = "pending"
                  THEN /\ attempt' = [started EXCEPT ![k].waiters = Append(@, c)]
                       /\ jobs' = jobs
                  ELSE /\ attempt' = started
                       /\ jobs' = Append(jobs, [kind |-> "resume", id |-> c])
    /\ UNCHANGED <<pipeVars, fnVars>>

\* mongoose.connect() resolves or rejects
ConnectSettles(k) ==
    /\ jobs = <<>>
    /\ attempt[k].connect = "pending"
    /\ \E outcome \in {"fulfilled", "rejected"} :
         attempt' = [attempt EXCEPT ![k].connect = outcome]
    /\ jobs' = <<[kind |-> "then", id |-> k]>>
    /\ UNCHANGED <<cached, caller>>
    /\ UNCHANGED <<pipeVars, fnVars>>

\* .then((mongooseInstance) => ...): logs and passes the instance on; a
\* rejection passes through
ThenHandler(k) ==
    /\ jobs # <<>>
    /\ Head(jobs) = [kind |-> "then", id |-> k]
    /\ jobs' = Append(Tail(jobs), [kind |-> "catch", id |-> k])
    /\ UNCHANGED <<cached, attempt, caller>>
    /\ UNCHANGED <<pipeVars, fnVars>>

\* a .catch handler that clears the cache but does not rethrow: the promise
\* the callers await is then fulfilled
CatchHandlerSwallows(k) ==
    /\ jobs # <<>>
    /\ Head(jobs) = [kind |-> "catch", id |-> k]
    /\ cached' = IF attempt[k].connect = "rejected"
                 THEN [cached EXCEPT !.promise = 0]
                 ELSE cached
    /\ attempt' = [attempt EXCEPT ![k].promise = "fulfilled",
                                  ![k].waiters = <<>>]
    /\ jobs' = Tail(jobs) \o
               [i \in 1..Len(attempt[k].waiters) |->
                   [kind |-> "resume", id |-> attempt[k].waiters[i]]]
    /\ UNCHANGED caller
    /\ UNCHANGED <<pipeVars, fnVars>>

\* .catch((error) => { ...; cached.promise = null; throw error; }): after it
\* cached.promise is settled and the awaiting callers are resumed in the
\* order in which they started to wait
CatchHandler(k) ==
    /\ jobs # <<>>
    /\ Head(jobs) = [kind |-> "catch", id |-> k]
    /\ cached' = IF attempt[k].connect = "rejected"
                 THEN [cached EXCEPT !.promise = 0]
                 ELSE cached
    /\ attempt' = [attempt EXCEPT ![k].promise = attempt[k].connect,
                                  ![k].waiters = <<>>]
    /\ jobs' = Tail(jobs) \o
               [i \in 1..Len(attempt[k].waiters) |->
                   [kind |-> "resume", id |-> attempt[k].waiters[i]]]
    /\ UNCHANGED caller
    /\ UNCHANGED <<pipeVars, fnVars>>

\* try { cached.conn = await cached.promise; return cached.conn; }
\* catch (error) { cached.promise = null; cached.conn = null; throw error; }
Resume(c) ==
    /\ jobs # <<>>
    /\ Head(jobs) = [kind |-> "resume", id |-> c]
    /\ jobs' = Tail(jobs)
    /\ IF attempt[caller[c].awaits].promise = "fulfilled"
       THEN /\ cached' = [cached EXCEPT !.conn = caller[c].awaits]
            /\ caller' = [caller EXCEPT ![c].pc = "returned",
                                        ![c].result = caller[c].awaits]
       ELSE /\ cached' = [conn |-> 0, promise |-> 0]
            /\ caller' = [caller EXCEPT ![c].pc = "threw"]
    /\ UNCHANGED attempt
    /\ UNCHANGED <<pipeVars, fnVars>>

(***************************************************************************)
(* Specifications                                                          *)
(***************************************************************************)
ConnInit ==
    /\ cached = [conn |-> 0, promise |-> 0]
    /\ attempt = [k \in Attempts |-> NoAttempt]
    /\ caller = [c \in Callers |-> IdleCaller]
    /\ jobs = <<>>

PipeInit ==
    /\ req = [r \in Requests |-> IdleRequest]
    /\ applications = {}
    /\ fileUploads = {}
    /\ cloud = {}

\* no library function is called on its own
NoCall == [fn |-> "none"]

Init ==
    /\ nodeEnv \in {"production", "development"}
    /\ endpoint \in Routes
    /\ headers = AnyHeaders
    /\ PipeInit
    /\ ConnInit
    /\ call = NoCall

Next ==
    \/ \E r \in Requests : Arrive(r)
    \/ \E r \in Requests : ContentTypeStep(r)
    \/ \E r \in Requests : OriginStep(r)
    \/ \E r \in Requests : ConnectStep(r)
    \/ \E r \in Requests : ParseStep(r)
    \/ \E r \in Requests : FormDataStep(r)
    \/ \E r \in Requests : FilesStep(r)
    \/ \E r \in Requests : ValidatePhotoStep(r)
    \/ \E r \in Requests : ValidateResumeStep(r)
    \/ \E r \in Requests : ValidateFilesStep(r)
    \/ \E r \in Requests : UploadPhotoStep(r)
    \/ \E r \in Requests : UploadResumeStep(r)
    \/ \E r \in Requests : DupCheckStep(r)
    \/ \E r \in Requests : SaveStep(r)
    \/ \E r \in Requests : FileRecordsStep(r)

\* the submission pipelines
Spec == Init /\ [][Next]_vars

\* a client that submits one application after the other: a request is
\* sent when the earlier ones have been answered
ArriveInTurn(r) ==
    /\ \A s \in Requests : s < r => At(s, "done")
    /\ Arrive(r)

NextSeq ==
    \/ \E r \in Requests : ArriveInTurn(r)
    \/ \E r \in Requests : ContentTypeStep(r)
    \/ \E r \in Requests : OriginStep(r)
    \/ \E r \in Requests : ConnectStep(r)
    \/ \E r \in Requests : ParseStep(r)
    \/ \E r \in Requests : FormDataStep(r)
    \/ \E r \in Requests : FilesStep(r)
    \/ \E r \in Requests : ValidatePhotoStep(r)
    \/ \E r \in Requests : ValidateResumeStep(r)
    \/ \E r \in Requests : ValidateFilesStep(r)
    \/ \E r \in Requests : UploadPhotoStep(r)
    \/ \E r \in Requests : UploadResumeStep(r)
    \/ \E r \in Requests : DupCheckStep(r)
    \/ \E r \in Requests : SaveStep(r)
    \/ \E r \in Requests : FileRecordsStep(r)

SpecSeq == Init /\ [][NextSeq]_vars

(***************************************************************************)
(* The handlers of the other methods: export async function GET, PUT,      *)
(* DELETE of the route modules                                             *)
(***************************************************************************)
Methods == {"GET", "PUT", "DELETE"}

MethodResponse(route) ==
    IF route = RouteV2
    THEN createErrorResponse("INVALID_REQUEST", "Method not allowed", Null)
    ELSE JsonResponse(405, "none",
                      "Method not allowed. Use POST to submit applications.")

\* a request of another method arrives and is answered in one step; the
\* log holds the method
UnsupportedMethod(r) ==
    /\ At(r, "idle")
    /\ \A s \in Requests : s < r => At(s, "done")
    /\ \E method \in Methods :
         req' = [req EXCEPT ![r] =
                   Responded([IdleRequest EXCEPT !.route = endpoint,
                                                 !.log = <<method>>],
                             MethodResponse(endpoint))]
    /\ UNCHANGED <<nodeEnv, endpoint, headers, applications, fileUploads, cloud>>
    /\ UNCHANGED <<connVars, fnVars>>

NextMethods ==
    \/ \E r \in Requests : UnsupportedMethod(r)
    \/ \E r \in Requests : ArriveInTurn(r)
    \/ \E r \in Requests : ContentTypeStep(r)
    \/ \E r \in Requests : OriginStep(r)
    \/ \E r \in Requests : ConnectStep(r)
    \/ \E r \in Requests : ParseStep(r)
    \/ \E r \in Requests : FormDataStep(r)
    \/ \E r \in Requests : FilesStep(r)
    \/ \E r \in Requests : ValidatePhotoStep(r)
    \/ \E r \in Requests : ValidateResumeStep(r)
    \/ \E r \in Requests : ValidateFilesStep(r)
    \/ \E r \in Requests : UploadPhotoStep(r)
    \/ \E r \in Requests : UploadResumeStep(r)
    \/ \E r \in Requests : DupCheckStep(r)
    \/ \E r \in Requests : SaveStep(r)
    \/ \E r \in Requests : FileRecordsStep(r)

SpecMethods == Init /\ [][NextMethods]_vars

\* one request whose origin and referer headers are known
InitGuard ==
    /\ nodeEnv \in {"production", "development"}
    /\ endpoint \in Routes
    /\ headers \in [origin : OriginHeaders, referer : RefererHeaders]
    /\ PipeInit
    /\ ConnInit
    /\ call = NoCall

ArriveAlone(r) ==
    /\ r = 1
    /\ Arrive(r)

NextGuard ==
    \/ \E r \in Requests : ArriveAlone(r)
    \/ \E r \in Requests : ContentTypeStep(r)
    \/ \E r \in Requests : OriginStep(r)
    \/ \E r \in Requests : ConnectStep(r)
    \/ \E r \in Requests : ParseStep(r)
    \/ \E r \in Requests : FormDataStep(r)
    \/ \E r \in Requests : FilesStep(r)
    \/ \E r \in Requests : ValidatePhotoStep(r)
    \/ \E r \in Requests : ValidateResumeStep(r)
    \/ \E r \in Requests : ValidateFilesStep(r)
    \/ \E r \in Requests : UploadPhotoStep(r)
    \/ \E r \in Requests : UploadResumeStep(r)
    \/ \E r \in Requests : DupCheckStep(r)
    \/ \E r \in Requests : SaveStep(r)
    \/ \E r \in Requests : FileRecordsStep(r)

SpecGuard == InitGuard /\ [][NextGuard]_vars

\* the next step of the handler of request r: the runtime resumes the async
\* function when the call it awaits has returned or failed
Handle(r) ==
    \/ ContentTypeStep(r)
    \/ OriginStep(r)
    \/ ConnectStep(r)
    \/ ParseStep(r)
    \/ FormDataStep(r)
    \/ FilesStep(r)
    \/ ValidatePhotoStep(r)
    \/ ValidateResumeStep(r)
    \/ ValidateFilesStep(r)
    \/ UploadPhotoStep(r)
    \/ UploadResumeStep(r)
    \/ DupCheckStep(r)
    \/ SaveStep(r)
    \/ FileRecordsStep(r)

\* every awaited call settles, so a handler that can take a step takes it
SpecLive ==
    /\ InitGuard
    /\ [][NextGuard]_vars
    /\ \A r \in Requests : WF_vars(Handle(r))

(***************************************************************************)
(* One submission whose form fields are drawn from values on both sides    *)
(* of every validator of the schema                                        *)
(***************************************************************************)
Ages ==
    {Text(<<"1", "8">>),
     Text(<<"1", "7">>),
     Text(<<"1", "0", "0">>),
     Text(<<"1", "0", "1">>),
     Text(<<"a", "b", "c">>),
     Text(<<" ", "3", "0">>),
     Text(<<"2", "5", ".", "9">>),
     Missing}
YearsOfPassing ==
    {Text(<<"1", "9", "5", "0">>),
     Text(<<"1", "9", "4", "9">>),
     Text(<<"2", "0", "3", "1">>),
     Text(<<"2", "0", "3", "2">>),
     Text(<<>>)}
CareerGaps ==
    {Text(<<"0">>),
     Text(<<"1", ".", "5">>),
     Text(<<"-", "1">>),
     Text(<<"-", "0", ".", "5">>),
     Text(<<"a", "b", "c">>),
     Missing}
MobileNumbers ==
    {Text(<<"9", "8", "7", "6", "5", "4", "3", "2", "1", "0">>),
     Text(<<"9", "8", "7", "6", "5", "4", "3", "2", "1">>),
     Text(<<"9", "8", "7", "6", "5", "4", "3", "2", "1", "0", "1">>),
     Text(<<"9", "8", "7", "6", "5", "x", "3", "2", "1", "0">>),
     Text(<<>>),
     Missing}
Declarations ==
    {Text(<<"t", "r", "u", "e">>),
     Text(<<"f", "a", "l", "s", "e">>),
     Text(<<"o", "n">>),
     Missing}

Forms ==
    [age : Ages, mobileNumber : MobileNumbers, yearOfPassing : YearsOfPassing,
     careerGap : CareerGaps, declarationAccepted : Declarations]

\* the save of a request whose form is any of Forms
SaveAnyForm(r) == SaveOf(r, Forms)

NextSchema ==
    \/ \E r \in Requests : ArriveAlone(r)
    \/ \E r \in Requests : ContentTypeStep(r)
    \/ \E r \in Requests : OriginStep(r)
    \/ \E r \in Requests : ConnectStep(r)
    \/ \E r \in Requests : ParseStep(r)
    \/ \E r \in Requests : FormDataStep(r)
    \/ \E r \in Requests : FilesStep(r)
    \/ \E r \in Requests : ValidatePhotoStep(r)
    \/ \E r \in Requests : ValidateResumeStep(r)
    \/ \E r \in Requests : ValidateFilesStep(r)
    \/ \E r \in Requests : UploadPhotoStep(r)
    \/ \E r \in Requests : UploadResumeStep(r)
    \/ \E r \in Requests : DupCheckStep(r)
    \/ \E r \in Requests : SaveAnyForm(r)
    \/ \E r \in Requests : FileRecordsStep(r)

SpecSchema == Init /\ [][NextSchema]_vars

(***************************************************************************)
(* One submission whose text fields are drawn from values with and         *)
(* without a URL in front                                                  *)
(***************************************************************************)
TextValues ==
    {<<"Bob">>, <<"http", "://", "x.io">>, <<"HTTPS", "://", "x.io">>,
     <<" ", "https", "://", "x.io">>}
Texts ==
    {<<Entry("fullName", first), Entry(key, second), Entry("city", third)>> :
        first \in TextValues, key \in UrlFields, second \in TextValues,
        third \in TextValues}

\* the step of a request whose text is any of Texts
FormDataAny(r) == FormDataOf(r, Texts)

NextText ==
    \/ \E r \in Requests : ArriveAlone(r)
    \/ \E r \in Requests : ContentTypeStep(r)
    \/ \E r \in Requests : OriginStep(r)
    \/ \E r \in Requests : ConnectStep(r)
    \/ \E r \in Requests : ParseStep(r)
    \/ \E r \in Requests : FormDataAny(r)
    \/ \E r \in Requests : FilesStep(r)
    \/ \E r \in Requests : ValidatePhotoStep(r)
    \/ \E r \in Requests : ValidateResumeStep(r)
    \/ \E r \in Requests : ValidateFilesStep(r)
    \/ \E r \in Requests : UploadPhotoStep(r)
    \/ \E r \in Requests : UploadResumeStep(r)
    \/ \E r \in Requests : DupCheckStep(r)
    \/ \E r \in Requests : SaveStep(r)
    \/ \E r \in Requests : FileRecordsStep(r)

SpecText == Init /\ [][NextText]_vars

(***************************************************************************)
(* GET and DELETE /api/upload on the file records that a submission has    *)
(* written.  call holds the request of the API that is being served, or    *)
(* the last one served together with its response.                         *)
(***************************************************************************)
\* the fileId parameter: the id of a record a submission can write, an id
\* that no record has, or no parameter
NoFileId == 0
FileIds == {FileId(r, kind) : r \in Requests, kind \in {"photograph", "resume"}}
FileIdParams == FileIds \cup {NoFileId, FileId(MaxRequests + 1, "photograph")}

\* NextResponse.json({ success: false, error }, { status })
UploadApiError(status, error) ==
    [status |-> status, success |-> FALSE, error |-> error]

\* FileUpload.findById(fileId)
FindById(coll, fileId) == {f \in coll : f.id = fileId}

\* a softDelete that puts a deleted file back
softDeleteToggling(file) ==
    IF file.status = "deleted"
    THEN [file EXCEPT !.status = "active", !.deletedAt = Undefined]
    ELSE [file EXCEPT !.status = "deleted", !.deletedAt = "new Date()"]

\* FileUploadSchema.methods.softDelete: the document before this.save()
softDelete(file) == [file EXCEPT !.status = "deleted", !.deletedAt = "new Date()"]

\* document.save() of a document that exists: the modified paths are set
\* on the stored document with the same _id
Saved(coll, doc) ==
    {IF f.id = doc.id
     THEN [f EXCEPT !.status = doc.status, !.deletedAt = doc.deletedAt]
     ELSE f : f \in coll}

\* file.getFileSummary()
getFileSummary(file) == [id |-> file.id, status |-> file.status]

NoApiCall == call = NoCall \/ "resp" \in DOMAIN call

\* DELETE /api/upload up to await FileUpload.findById(fileId)
DeleteFind ==
    /\ NoApiCall
    /\ \E fileId \in FileIdParams :
         \/ /\ fileId = NoFileId
            /\ call' = [fn |-> "DELETE", fileId |-> fileId,
                        resp |-> UploadApiError(400, "File ID is required")]
         \/ /\ fileId # NoFileId
            /\ FindById(fileUploads, fileId) = {}
            /\ call' = [fn |-> "DELETE", fileId |-> fileId,
                        resp |-> UploadApiError(404, "File not found")]
         \/ /\ fileId # NoFileId
            /\ \E file \in FindById(fileUploads, fileId) :
                 call' = [fn |-> "DELETE", fileId |-> fileId, file |-> file]
         \/ call' = [fn |-> "DELETE", fileId |-> fileId,
                     resp |-> UploadApiError(500, "error.message")]
    /\ UNCHANGED <<pipeVars, connVars>>

\* await file.softDelete() and the response
DeleteSave ==
    /\ call.fn = "DELETE"
    /\ "resp" \notin DOMAIN call
    /\ \/ /\ fileUploads' = Saved(fileUploads, softDelete(call.file))
          /\ call' = With(call, "resp",
                          [status |-> 200, success |-> TRUE,
                           message |-> "File deleted successfully"])
       \/ /\ fileUploads' = fileUploads
          /\ call' = With(call, "resp", UploadApiError(500, "error.message"))
    /\ UNCHANGED <<nodeEnv, endpoint, headers, req, applications, cloud>>
    /\ UNCHANGED connVars

\* the limit parameter, 50 when there is none
Limits == {1, 50}

\* FileUpload.find({ status: 'active', ...filters }).sort(..).limit(limit):
\* the results a query can give; the upload times that decide which records
\* a limit keeps are not in this model, so any of them can be kept
FindActive(coll, filter, limit) ==
    LET matching == {f \in coll : f.status = "active" /\ f.kind \in filter} IN
    {found \in SUBSET matching :
        Cardinality(found) = IF Cardinality(matching) < limit
                             THEN Cardinality(matching) ELSE limit}

\* GET /api/upload without fileId: the list of files
ListFiles ==
    /\ NoApiCall
    /\ \E filter \in {{"photograph"}, {"resume"}, {"photograph", "resume"}},
          limit \in Limits :
         \/ \E found \in FindActive(fileUploads, filter, limit) :
              call' = [fn |-> "GET",
                       resp |-> [status |-> 200, success |-> TRUE,
                                 count |-> Cardinality(found),
                                 data |-> {getFileSummary(f) : f \in found}]]
         \/ call' = [fn |-> "GET", resp |-> UploadApiError(500, "error.message")]
    /\ UNCHANGED <<pipeVars, connVars>>

NextFiles ==
    \/ \E r \in Requests : ArriveAlone(r)
    \/ \E r \in Requests : ContentTypeStep(r)
    \/ \E r \in Requests : OriginStep(r)
    \/ \E r \in Requests : ConnectStep(r)
    \/ \E r \in Requests : ParseStep(r)
    \/ \E r \in Requests : FormDataStep(r)
    \/ \E r \in Requests : FilesStep(r)
    \/ \E r \in Requests : ValidatePhotoStep(r)
    \/ \E r \in Requests : ValidateResumeStep(r)
    \/ \E r \in Requests : ValidateFilesStep(r)
    \/ \E r \in Requests : UploadPhotoStep(r)
    \/ \E r \in Requests : UploadResumeStep(r)
    \/ \E r \in Requests : DupCheckStep(r)
    \/ \E r \in Requests : SaveStep(r)
    \/ \E r \in Requests : FileRecordsStep(r)
    \/ DeleteFind
    \/ DeleteSave
    \/ ListFiles

SpecFiles == Init /\ [][NextFiles]_vars

(***************************************************************************)
(* The exported functions of lib/validation.js and lib/fileValidation.js,  *)
(* each called once on its own.  call holds the arguments; the call is     *)
(* done when it also holds the result.                                     *)
(***************************************************************************)
MaxNameLen == 6

Envs == {"production", "development", "test"}
AppUrls == {Absent, AppUrl, Url("https", "app.example", "/apply")}

FileTypes ==
    {"image/jpeg", "image/jpg", "image/png", "image/webp", "image/gif",
     "application/pdf", "text/plain"}
FileSizes ==
    {0, 1, 2, 3, 4, 5 * MiB - 1, 5 * MiB, 5 * MiB + 1,
     10 * MiB, 10 * MiB + 1}
WebpBytes == <<82, 73, 70, 70>>
FileHeads ==
    {<<>>, <<255>>, <<255, 216>>, <<255, 216, 255>>, JpegBytes, PngBytes,
     <<137, 80, 78>>, WebpBytes, PdfBytes, <<37, 80>>, <<0, 0, 0, 0>>}
Extension(type) ==
    CASE type \in {"image/jpeg", "image/jpg"} -> ".jpg"
      [] type = "image/png" -> ".png"
      [] type = "image/webp" -> ".webp"
      [] type = "image/gif" -> ".gif"
      [] type = "application/pdf" -> ".pdf"
      [] OTHER -> ".txt"

\* files whose name has the extension of the declared type; the content is
\* at least as long as the leading bytes kept of it
Files ==
    {[MakeFile(type, Extension(type), size, head) EXCEPT !.urlName = urlName] :
        type \in FileTypes, urlName \in BOOLEAN,
        <<size, head>> \in {sh \in FileSizes \X FileHeads : Len(sh[2]) <= sh[1]}}

Categories == {"IMAGE", "PDF", "VIDEO"}
GuardedCategories == {"image", "pdf"}

NameChars == {".", "/", "a", " "}
Repeated(ch, n) == [index \in 1..n |-> ch]
ShortNames == UNION {[1..n -> NameChars] : n \in 0..MaxNameLen}
\* names that reach or pass the limit of sanitizeFilename
LongNames == {Repeated("a", NameLimit - 3) \o name : name \in ShortNames}
FileNames == ShortNames \cup LongNames

\* addresses a duplicate-key message can quote, and the errors handed to
\* classifyDatabaseError: the errors of the store, a duplicate-key error for
\* each address, and a ValidationError whose message quotes a rejected value
QuotedEmails ==
    {EmailSetter(email) : email \in RawEmails}
        \cup {<<"network", "@x.io">>, <<"timeout", "@x.io">>,
              <<"unauthorized", "@x.io">>}
ClassifiedErrors ==
    StoreErrors
        \cup {DuplicateKeyError(email) : email \in QuotedEmails}
        \cup {[ValidationError EXCEPT !.words = @ \cup quoted] :
                 quoted \in {{}, {"network"}, {"timeout"}, {"unauthorized"}}}

Calls ==
    [fn : {"validateOrigin"}, origin : OriginHeaders, referer : RefererHeaders,
     appUrl : AppUrls]
    \cup [fn : {"validateFile", "validateMimeType", "validateFileSize"},
          file : Files, category : Categories]
    \cup [fn : {"validateFileType"}, file : Files, category : GuardedCategories]
    \cup [fn : {"sanitizeFilename"}, filename : FileNames]
    \cup [fn : {"classifyDatabaseError"}, error : ClassifiedErrors]

Calling(fn) == call.fn = fn /\ "result" \notin DOMAIN call
Called(fn) == call.fn = fn /\ "result" \in DOMAIN call
Returned(result) ==
    [key \in DOMAIN call \cup {"result"} |->
        IF key = "result" THEN result ELSE call[key]]

InitFn ==
    /\ call \in Calls
    /\ nodeEnv \in (IF call.fn = "validateOrigin" THEN Envs ELSE {"production"})
    /\ endpoint = RouteV2
    /\ headers = AnyHeaders
    /\ PipeInit
    /\ ConnInit

ValidateOriginCall ==
    /\ Calling("validateOrigin")
    /\ call' = Returned(validateOrigin(call.origin, call.referer, nodeEnv,
                                       call.appUrl))
    /\ UNCHANGED <<pipeVars, connVars>>

ValidateFileCall ==
    /\ Calling("validateFile")
    /\ call' = Returned(validateFile(call.file, call.category))
    /\ UNCHANGED <<pipeVars, connVars>>

ValidateMimeTypeCall ==
    /\ Calling("validateMimeType")
    /\ call' = Returned(validateMimeType(call.file, call.category))
    /\ UNCHANGED <<pipeVars, connVars>>

ValidateFileSizeCall ==
    /\ Calling("validateFileSize")
    /\ call' = Returned(validateFileSize(call.file, call.category))
    /\ UNCHANGED <<pipeVars, connVars>>

ValidateFileTypeCall ==
    /\ Calling("validateFileType")
    /\ call' = Returned(GuardedValidateFileType(call.file, call.category))
    /\ UNCHANGED <<pipeVars, connVars>>

SanitizeFilenameCall ==
    /\ Calling("sanitizeFilename")
    /\ call' = Returned(sanitizeFilename(call.filename))
    /\ UNCHANGED <<pipeVars, connVars>>

ClassifyDatabaseErrorCall ==
    /\ Calling("classifyDatabaseError")
    /\ call' = Returned(classifyDatabaseError(call.error))
    /\ UNCHANGED <<pipeVars, connVars>>

NextFn ==
    \/ ClassifyDatabaseErrorCall
    \/ ValidateOriginCall
    \/ ValidateFileCall
    \/ ValidateMimeTypeCall
    \/ ValidateFileSizeCall
    \/ ValidateFileTypeCall
    \/ SanitizeFilenameCall

SpecFn == InitFn /\ [][NextFn]_vars

InitConn ==
    /\ nodeEnv = "production"
    /\ endpoint = RouteV2
    /\ headers = AnyHeaders
    /\ PipeInit
    /\ ConnInit
    /\ call = NoCall

NextConn ==
    \/ \E c \in Callers : ConnectDB(c)
    \/ \E k \in Attempts : ConnectSettles(k)
    \/ \E k \in Attempts : ThenHandler(k)
    \/ \E k \in Attempts : CatchHandler(k)
    \/ \E c \in Callers : Resume(c)

\* the connection cache
SpecConn == InitConn /\ [][NextConn]_vars

(***************************************************************************)
(* Properties of the submission pipelines                                  *)
(***************************************************************************)
Last(seq) == seq[Len(seq)]
Range(seq) == {seq[i] : i \in 1..Len(seq)}
IsPrefix(s, t) == Len(s) <= Len(t) /\ s = SubSeq(t, 1, Len(s))

ApplicationsOf(r) == {a \in applications : a.id = r}
FileUploadsOf(r) == {f \in fileUploads : f.by = r}
ObjectsOf(r) == {o \in cloud : o.by = r}
WithEmail(email) == {a \in applications : a.emailAddress = EmailSetter(email)}

Answered(r) == req[r].nresp > 0
Succeeded(r) == Answered(r) /\ req[r].resp.status = 201
FailedAt(r, step) ==
    /\ Answered(r)
    /\ req[r].resp.status # 201
    /\ req[r].log # <<>>
    /\ Last(req[r].log) = step
SameEmail(r, s) ==
    /\ req[r].email # NoEmail
    /\ req[s].email # NoEmail
    /\ EmailSetter(req[r].email) = EmailSetter(req[s].email)
OnV2(r) == req[r].route = RouteV2

\* C1: whatever the interleaving of the submissions, the applications
\* collection never holds two records whose lower-cased, trimmed email
\* addresses are equal, and every stored address is in that normal form.
EmailAddressUnique ==
    /\ \A a, b \in applications : a.emailAddress = b.emailAddress => a = b
    /\ \A a \in applications : a.emailAddress = EmailSetter(a.emailAddress)

\* two requests whose addresses differ only in case and white space both
\* passed the duplicate check; one wrote, the other's insert was rejected
RaceLostAtWrite ==
    \E r, s \in Requests :
        /\ r # s
        /\ ApplicationsOf(s) # {}
        /\ FailedAt(r, "save")
        /\ req[r].threw.code = "11000"
        /\ req[r].email # req[s].email
        /\ SameEmail(r, s)

\* C2: an answered applications-v2 request has an application record if
\* and only if its response is 201, and then it has exactly one, the one
\* whose id the response carries.
RecordIffCreated ==
    \A r \in Requests :
        OnV2(r) /\ Answered(r) =>
            /\ req[r].resp.status = 201 <=> ApplicationsOf(r) # {}
            /\ req[r].resp.status = 201 =>
                   /\ Cardinality(ApplicationsOf(r)) = 1
                   /\ \A a \in ApplicationsOf(r) : a.id = req[r].appId

\* one applications-v2 request was answered 201, another failed schema
\* validation in save() and left no record
CreatedAndRejected ==
    \E r, s \in Requests :
        /\ OnV2(r) /\ OnV2(s)
        /\ Succeeded(s)
        /\ FailedAt(r, "save")
        /\ req[r].threw.name = "ValidationError"
        /\ ApplicationsOf(r) = {}

\* the order of steps that the handler is said to follow
StatedOrderV2 ==
    <<"origin", "parse", "validatePhoto", "validateResume", "uploadPhoto",
      "uploadResume", "dupCheck", "save", "fileRecords", "respond">>
IsStatedStep(step) == step \in Range(StatedOrderV2)
StatedSteps(log) == SelectSeq(log, IsStatedStep)

StepsInOrder ==
    \A r \in Requests :
        OnV2(r) =>
            /\ IsPrefix(StatedSteps(req[r].log), StatedOrderV2)
            /\ Succeeded(r) => StatedSteps(req[r].log) = StatedOrderV2
            /\ Answered(r) /\ ~Succeeded(r) => "respond" \notin Range(req[r].log)

StepAfterSuccessOnly ==
    \A r \in Requests :
        OnV2(r) /\ Len(req'[r].log) > Len(req[r].log) => ~Answered(r)

UploadStepKind(step) == IF step = "uploadPhoto" THEN "photograph" ELSE "resume"

\* the objects that the upload steps which ran to their end have stored
UploadedBefore(r) ==
    {[by |-> r, kind |-> UploadStepKind(req[r].log[i])] :
        i \in {j \in 1..(Len(req[r].log) - 1) :
                 req[r].log[j] \in {"uploadPhoto", "uploadResume"}}}

OneResponseNoWrite ==
    \A r \in Requests :
        OnV2(r) =>
            /\ req[r].nresp <= 1
            /\ Answered(r) <=> req[r].pc = "done"
            /\ Answered(r) /\ ~Succeeded(r) /\ "save" \notin Range(req[r].log) =>
                   /\ ApplicationsOf(r) = {}
                   /\ FileUploadsOf(r) = {}
                   /\ ObjectsOf(r) = UploadedBefore(r)

NothingAfterResponse ==
    \A r \in Requests :
        OnV2(r) /\ Answered(r) =>
            /\ req'[r] = req[r]
            /\ ObjectsOf(r)' = ObjectsOf(r)
            /\ ApplicationsOf(r)' = ApplicationsOf(r)
            /\ FileUploadsOf(r)' = FileUploadsOf(r)

\* C4: an applications-v2 request that fails at a step before the save
\* has one response and no record, holds in the object store only what the
\* uploads before the failing step put there, and after its response takes
\* no further step, uploads nothing and writes nothing.
FailureIsTerminal == []OneResponseNoWrite /\ [][NothingAfterResponse]_vars

\* an applications-v2 request was rejected by the duplicate check, with
\* both of its files uploaded, and the request of the record it collided
\* with had been answered 201
RejectedAfterUploads ==
    \E r, s \in Requests :
        /\ OnV2(r)
        /\ FailedAt(r, "dupCheck")
        /\ req[r].threw = NoError
        /\ req[r].nresp = 1
        /\ Cardinality(ObjectsOf(r)) = 2
        /\ Succeeded(s)
        /\ SameEmail(r, s)

\* C5: an applications-v2 request that reached the file records, that is,
\* whose application record was written, is answered 201 with the id of
\* that record, and the record is in the store, whether or not a file
\* record was written.
FileRecordFailureNotFatal ==
    \A r \in Requests :
        OnV2(r) /\ "fileRecords" \in Range(req[r].log) =>
            /\ req[r].resp.status = 201
            /\ req[r].appId = r
            /\ ApplicationsOf(r) = {NewApplication(r, req[r].email)}

\* two applications-v2 requests were answered 201; one has no file record
\* at all, and the other wrote a resume record with the public id that a
\* further raw upload would also carry
CreatedWithoutFileRecords ==
    \E r, s \in Requests :
        /\ OnV2(r) /\ OnV2(s)
        /\ Succeeded(r) /\ Succeeded(s)
        /\ FileUploadsOf(r) = {}
        /\ \E f \in FileUploadsOf(s) : f.publicId = SharedId

\* C6: a request whose resume upload fails after its photograph was
\* uploaded is answered 500 "Failed to upload resume", has no application
\* record and no file record, and its photograph is still in the object
\* store.
ResumeUploadFailure ==
    \A r \in Requests :
        FailedAt(r, "uploadResume") =>
            /\ req[r].resp.status = 500
            /\ req[r].resp.message = UploadFailedMessage("resume")
            /\ ApplicationsOf(r) = {}
            /\ FileUploadsOf(r) = {}
            /\ ObjectsOf(r) = {[by |-> r, kind |-> "photograph"]}

\* a resume upload failed and the photograph of that request is stored
PhotographOrphaned ==
    \E r \in Requests :
        /\ FailedAt(r, "uploadResume")
        /\ [by |-> r, kind |-> "photograph"] \in cloud
        /\ \A s \in Requests : s # r => ~At(s, "idle")

\* C7: when applications are submitted one after the other and a later one
\* carries the email address, up to case and surrounding white space, of an
\* earlier one that was answered 201, the later one is answered 409 and
\* there is still one record with that address.
SecondSubmissionIs409 ==
    \A r, s \in Requests :
        /\ s < r
        /\ Succeeded(s)
        /\ Answered(r)
        /\ SameEmail(r, s)
        /\ req[r].threw = NoError
        => /\ req[r].resp.status = 409
           /\ Cardinality(WithEmail(req[r].email)) = 1

\* C8: a request whose insert is rejected by the unique index, having
\* passed the duplicate check, is answered with the duplicate-email
\* outcome, 409, and exactly one record has the address.
LostRaceIsDuplicateEmail ==
    \A r \in Requests :
        req[r].threw.code = "11000" =>
            /\ Cardinality(WithEmail(req[r].email)) = 1
            /\ req[r].resp.status = 409

\* C9: a request rejected by the duplicate check has uploaded nothing and
\* written nothing.
DuplicateRejectedBeforeUpload ==
    \A r \in Requests :
        FailedAt(r, "dupCheck") /\ req[r].threw = NoError =>
            /\ ObjectsOf(r) = {}
            /\ FileUploadsOf(r) = {}

(***************************************************************************)
(* Properties of the connection cache                                      *)
(***************************************************************************)
Awaiting(k) == {c \in Callers : caller[c].pc = "awaiting" /\ caller[c].awaits = k}

AtMostOneInFlight ==
    /\ Cardinality(InFlight) <= 1
    /\ \A k \in InFlight : cached.promise = k /\ cached.conn = 0
    /\ \A c \in Callers :
           caller[c].pc = "awaiting" /\ InFlight # {} => caller[c].awaits \in InFlight

JoinsOrReuses ==
    \A c \in Callers :
        caller[c].pc = "idle" /\ caller'[c].pc # "idle" =>
            /\ InFlight # {} =>
                   /\ caller'[c].pc = "awaiting"
                   /\ caller'[c].awaits \in InFlight
                   /\ InFlight' = InFlight
            /\ cached.conn # 0 =>
                   /\ caller'[c].pc = "returned"
                   /\ caller'[c].result = cached.conn
                   /\ InFlight' = InFlight

NoAttemptWhileCached == cached.conn # 0 => InFlight' \subseteq InFlight

\* C10: at most one mongoose.connect() attempt is pending at any time; a
\* connectDB call made while one is pending awaits that attempt and starts
\* none; and while cached.conn holds a handle no attempt is started, the
\* call returning the handle.
SingleFlight ==
    []AtMostOneInFlight /\ [][JoinsOrReuses /\ NoAttemptWhileCached]_vars

\* after a first attempt was rejected, two callers await the one pending
\* second attempt
TwoCallersOneAttempt ==
    \E k, j \in Attempts :
        /\ attempt[j].promise = "rejected"
        /\ attempt[k].connect = "pending"
        /\ Cardinality(Awaiting(k)) >= 2

Rejected == {k \in Attempts : attempt[k].connect = "rejected"}

FailureReachesCallers ==
    jobs = <<>> =>
        /\ \A c \in Callers :
               caller[c].awaits \in Rejected => caller[c].pc = "threw"
        /\ cached.promise \notin Rejected
        /\ cached.conn \notin Rejected
        /\ InFlight = {} /\ cached.conn = 0 => cached.promise = 0
        /\ cached.conn # 0 =>
               /\ attempt[cached.conn].connect = "fulfilled"
               /\ cached.promise = cached.conn

RetryStartsAttempt ==
    \A c \in Callers :
        /\ caller[c].pc = "idle"
        /\ caller'[c].pc # "idle"
        /\ cached = [conn |-> 0, promise |-> 0]
        => /\ caller'[c].pc = "awaiting"
           /\ attempt[caller'[c].awaits].connect = "none"
           /\ InFlight' = {caller'[c].awaits}
           /\ cached' = [conn |-> 0, promise |-> caller'[c].awaits]

\* C11: once the reactions to a rejected mongoose.connect() have run,
\* every connectDB call that awaited it has thrown, cached.conn and
\* cached.promise are null unless a later attempt set them, and a
\* connectDB call that finds the cache empty starts a new attempt, which
\* when fulfilled is the cached handle.
FailureClearsCache ==
    []FailureReachesCallers /\ [][RetryStartsAttempt]_vars

\* two callers threw with the first attempt, and a third caller's new
\* attempt succeeded and is the cached handle
RetriedAndCached ==
    \E j, k \in Attempts :
        /\ j \in Rejected
        /\ Cardinality({c \in Callers :
                           caller[c].awaits = j /\ caller[c].pc = "threw"}) >= 2
        /\ cached.conn = k
        /\ \E c \in Callers : caller[c].pc = "returned" /\ caller[c].result = k

RejectedByGuard(r) == FailedAt(r, "origin") /\ req[r].threw = NoError

\* C12: a request that the origin guard rejects has made no database
\* connection attempt, parsed no form body, uploaded no object and written
\* no record: the only steps it ran are the content-type check and the
\* guard.
GuardBeforeParsingAndIO ==
    \A r \in Requests :
        RejectedByGuard(r) =>
            /\ Range(req[r].log) \subseteq {"contentType", "origin"}
            /\ ObjectsOf(r) = {}
            /\ ApplicationsOf(r) = {}
            /\ FileUploadsOf(r) = {}

\* the guard rejected one request while another one of the same handler
\* went through the whole pipeline
GuardRejectedOne ==
    \E r, s \in Requests :
        /\ RejectedByGuard(r)
        /\ req[r].resp.status \in {401, 403}
        /\ Succeeded(s)
        /\ ApplicationsOf(s) # {}

SchemeHost(u) == <<u.scheme, u.host>>

\* the request carries neither header, or an origin header whose
\* scheme+host is not that of the configured application URL
ForeignRequest ==
    \/ headers.origin = Absent /\ headers.referer = Absent
    \/ headers.origin # Absent /\ SchemeHost(headers.origin) # SchemeHost(AppUrl)

\* C13: in production mode a request that carries neither an origin nor a
\* referer header, or whose origin differs from the configured application
\* URL, is not answered with success by any submission handler and leaves
\* no application record.
ProductionRejectsForeign ==
    nodeEnv = "production" /\ ForeignRequest =>
        \A r \in Requests : ~Succeeded(r) /\ ApplicationsOf(r) = {}

\* C14: outside production mode validateOrigin returns valid for every
\* origin header and referer header, present or absent, matching or not,
\* and every configured application URL.
AlwaysValidOutsideProduction ==
    Called("validateOrigin") /\ nodeEnv # "production" /\ call.appUrl # Absent
        => call.result = Valid

\* outside production a foreign origin without a referer was found valid
ForeignOriginFoundValid ==
    /\ Called("validateOrigin")
    /\ nodeEnv = "development"
    /\ call.appUrl = AppUrl
    /\ call.origin = Url("https", "evil.example", "")
    /\ call.referer = Absent
    /\ call.result = Valid

\* the header validateOrigin goes by: the origin, else the referer
PreferredHeader ==
    IF call.origin # Absent THEN call.origin ELSE call.referer

\* C15: in production mode validateOrigin returns valid exactly when one of
\* the two headers is present and the scheme+host of the origin header, or
\* of the referer when there is no origin, is that of the configured
\* application URL; with both absent it returns the missing-headers reason,
\* on a mismatch the unauthorized-origin reason.
ProductionOriginRule ==
    Called("validateOrigin") /\ nodeEnv = "production" /\ call.appUrl # Absent
        => call.result =
              IF call.origin = Absent /\ call.referer = Absent
              THEN Invalid("Missing origin and referer headers")
              ELSE IF SchemeHost(PreferredHeader) = SchemeHost(call.appUrl)
              THEN Valid
              ELSE Invalid("Unauthorized origin")

\* the signatures the specification names: JPEG FF D8 FF, PNG 89 50 4E 47,
\* WEBP 52 49 46 46, PDF 25 50 44 46
KnownSignature(type) ==
    CASE type = "image/jpeg" -> <<255, 216, 255>>
      [] type = "image/png" -> <<137, 80, 78, 71>>
      [] type = "image/webp" -> <<82, 73, 70, 70>>
      [] type = "application/pdf" -> <<37, 80, 68, 70>>
      [] OTHER -> <<>>

ContentMismatch(file) ==
    /\ KnownSignature(file.type) # <<>>
    /\ \/ Len(file.head) < Len(KnownSignature(file.type))
       \/ SubSeq(file.head, 1, Len(KnownSignature(file.type)))
             # KnownSignature(file.type)

\* name, declared type and size of the file pass their checks
OtherwiseAcceptable(file, category) ==
    /\ ~file.urlName
    /\ validateMimeType(file, category).valid
    /\ validateFileSize(file, category).valid

\* C16: validateFile never finds valid a file whose leading bytes are not
\* the signature of its declared MIME type, a file shorter than the
\* signature included, and when the name, the declared type and the size
\* are acceptable the result is invalid with the content-mismatch message.
MismatchIsInvalid ==
    Called("validateFile") /\ ContentMismatch(call.file) =>
        /\ ~call.result.valid
        /\ OtherwiseAcceptable(call.file, call.category) =>
              call.result = Invalid("File content does not match declared type")

\* a two-byte image/jpeg file that holds FF D8 was turned down for its
\* content
ShortFileTurnedDown ==
    /\ Called("validateFile")
    /\ call.category = "IMAGE"
    /\ call.file.type = "image/jpeg"
    /\ call.file.size = 2
    /\ call.file.head = <<255, 216>>
    /\ call.result = Invalid("File content does not match declared type")

\* the allow-lists the specification states
StatedTypes(category) ==
    CASE category \in {"IMAGE", "image"} ->
            {"image/jpeg", "image/jpg", "image/png", "image/webp"}
      [] category \in {"PDF", "pdf"} -> {"application/pdf"}
      [] OTHER -> {}

\* C17: the declared types that pass the type check of a validator are
\* exactly image/jpeg, image/jpg, image/png and image/webp for category
\* image and exactly application/pdf for category pdf.
TypeCheckPassesStatedTypes ==
    /\ Called("validateMimeType") /\ call.category \in {"IMAGE", "PDF"} =>
          (call.result.valid <=> call.file.type \in StatedTypes(call.category))
    /\ Called("validateFileType") =>
          (call.result.valid <=> call.file.type \in StatedTypes(call.category))

\* the ceilings the specification states, in bytes
StatedCeiling(category) ==
    CASE category = "IMAGE" -> 5 * 1024 * 1024
      [] category = "PDF" -> 10 * 1024 * 1024

\* C18: validateFileSize finds a file valid exactly when its size is at
\* least 1 byte and at most the ceiling of the category, 5*1024*1024 for
\* image and 10*1024*1024 for pdf; size 0 is invalid for every category.
SizeWithinCeiling ==
    Called("validateFileSize") =>
        /\ call.category \in {"IMAGE", "PDF"} =>
              (call.result.valid <=>
                  /\ 1 <= call.file.size
                  /\ call.file.size <= StatedCeiling(call.category))
        /\ call.file.size = 0 => ~call.result.valid

\* an image of exactly 5 MiB was found valid
ImageAtCeilingValid ==
    /\ Called("validateFileSize")
    /\ call.category = "IMAGE"
    /\ call.file.size = 5 * 1024 * 1024
    /\ call.result = Valid

HasDotDot(name) ==
    \E index \in 1..(Len(name) - 1) : name[index] = "." /\ name[index + 1] = "."

\* C19: the sanitized name of every file name holds no "/", no ".." and
\* only characters of [A-Za-z0-9._-].
SanitizedNameIsSafe ==
    Called("sanitizeFilename") =>
        /\ "/" \notin Range(call.result)
        /\ ~HasDotDot(call.result)
        /\ \A index \in 1..Len(call.result) : IsSafeChar(call.result[index])

\* C20: sanitizing a sanitized file name changes nothing:
\* sanitizeFilename(sanitizeFilename(x)) = sanitizeFilename(x).
SanitizeIdempotent ==
    Called("sanitizeFilename") => sanitizeFilename(call.result) = call.result

\* a name longer than the limit, with "../" and a character outside the
\* class in it, was sanitized to something else
LongNameSanitized ==
    /\ Called("sanitizeFilename")
    /\ Len(call.filename) > NameLimit
    /\ Matches(call.filename) # {}
    /\ " " \in Range(call.filename)
    /\ Len(call.result) = NameLimit
    /\ call.result # SubSeq(call.filename, 1, NameLimit)

\* the part of a name from its last "." on; nothing when it has no "."
Dots(name) == {index \in 1..Len(name) : name[index] = "."}
FileExtension(name) ==
    IF Dots(name) = {} THEN <<>>
    ELSE SubSeq(name,
                CHOOSE index \in Dots(name) : \A other \in Dots(name) : other <= index,
                Len(name))
EndsWith(name, suffix) ==
    /\ Len(suffix) <= Len(name)
    /\ SubSeq(name, Len(name) - Len(suffix) + 1, Len(name)) = suffix

\* the name with "../" stripped and the characters replaced, before it is cut
CleanedName(filename) == ReplaceUnsafe(RemoveTraversal(filename))

\* C21: the sanitized name is at most 100 characters long, and when the
\* name had to be shortened it still ends with the extension of the name,
\* the part from the last "." on.
TruncationKeepsExtension ==
    Called("sanitizeFilename") =>
        /\ Len(call.result) <= 100
        /\ Len(CleanedName(call.filename)) > 100 =>
              EndsWith(call.result, FileExtension(CleanedName(call.filename)))

OfUnsupportedMethod(r) == req[r].log # <<>> /\ req[r].log[1] \in Methods

\* C22: a GET, PUT or DELETE request to a submission endpoint is answered
\* with status 405 and a method-not-allowed message, and nothing of it is in
\* the object store, the applications or the file records.
MethodNotAllowed ==
    \A r \in Requests :
        OfUnsupportedMethod(r) =>
            /\ req[r].resp.status = 405
            /\ req[r].resp.message \in
                  {"Method not allowed",
                   "Method not allowed. Use POST to submit applications."}
            /\ ObjectsOf(r) = {}
            /\ ApplicationsOf(r) = {}
            /\ FileUploadsOf(r) = {}

\* the messages of the size checks: a file of an allowed type is over the
\* ceiling of its category
TooLargeMessages ==
    {"File size exceeds limit", "Photograph size must be less than 5MB",
     "Resume size must be less than 10MB"}

\* C23: a submission whose photograph or resume is over the size ceiling of
\* its category and otherwise acceptable is answered with the
\* file-too-large error code and HTTP status 413.
TooLargeIs413 ==
    \A r \in Requests :
        Answered(r) /\ req[r].resp.message \in TooLargeMessages =>
            /\ req[r].resp.status = 413
            /\ req[r].resp.error = "FILE_SIZE_EXCEEDED"

\* C24: a request with a wrong content-type, and a request whose multipart
\* body cannot be parsed, both end with the malformed-request error code and
\* HTTP status 400.
MalformedRequestIs400 ==
    \A r \in Requests :
        FailedAt(r, "contentType") \/ FailedAt(r, "parse") =>
            /\ req[r].resp.status = 400
            /\ req[r].resp.error = "INVALID_REQUEST"

HasHint(response) == "hint" \in DOMAIN response

\* C25: when the store cannot be reached the submission is answered with
\* HTTP 503 for a network or timeout failure and HTTP 401 for an
\* authentication failure, and the body carries a remediation hint.
StoreUnavailable ==
    \A r \in Requests :
        FailedAt(r, "connect") =>
            /\ req[r].threw \in {NetworkError, TimeoutError} =>
                  req[r].resp.status = 503 /\ HasHint(req[r].resp)
            /\ req[r].threw = AuthError =>
                  req[r].resp.status = 401 /\ HasHint(req[r].resp)

HasDetails(response) == "details" \in DOMAIN response

\* C26: in production mode no failure response of a submission endpoint
\* carries a details object.
NoDetailsInProduction ==
    nodeEnv = "production" =>
        \A r \in Requests :
            Answered(r) /\ req[r].resp.status # 201 => ~HasDetails(req[r].resp)

\* the messages of the type, extension and signature checks of the two
\* validators
WrongTypeMessages ==
    {"Invalid MIME type", "File content does not match declared type",
     "Invalid file type", "Invalid file extension",
     "File content does not match the file extension"}

\* the field the response names: details.field in applications-v2,
\* details.category in the guarded handler
NamedField(response) ==
    IF ~HasDetails(response) THEN "none"
    ELSE IF "field" \in DOMAIN response.details THEN response.details.field
    ELSE IF "category" \in DOMAIN response.details THEN response.details.category
    ELSE "none"

\* C27: a file that fails the type or signature check makes the submission
\* end with INVALID_FILE_TYPE and HTTP 400, and the response names the
\* field: photograph when the photograph fails, resume when the photograph
\* passed and the resume fails.
WrongTypeNamesField ==
    \A r \in Requests :
        /\ req[r].route \in {RouteV2, RouteGuarded}
        /\ Answered(r)
        /\ req[r].resp.message \in WrongTypeMessages
        => /\ req[r].resp.status = 400
           /\ req[r].resp.error = "INVALID_FILE_TYPE"
           /\ Last(req[r].log) \in {"validatePhoto", "validateResume"}
           /\ Last(req[r].log) = "validatePhoto" =>
                 NamedField(req[r].resp) = "photograph"
           /\ Last(req[r].log) = "validateResume" =>
                 /\ NamedField(req[r].resp) = "resume"
                 /\ "validatePhoto" \in Range(req[r].log)

\* applications-v2 turned down a resume for its content, after the
\* photograph had passed
ResumeContentTurnedDown ==
    \E r \in Requests :
        /\ OnV2(r)
        /\ FailedAt(r, "validateResume")
        /\ req[r].resp.message = "File content does not match declared type"
        /\ req[r].resp.details = [field |-> "resume"]

\* the save of the request was rejected because declarationAccepted is not
\* true
DeclarationRejected(r) ==
    /\ FailedAt(r, "save")
    /\ req[r].threw.name = "ValidationError"
    /\ "declarationAccepted" \in DOMAIN req[r].threw.errors

\* C28: a submission that passes every earlier step but whose
\* declarationAccepted is not true ends with VALIDATION_FAILED and HTTP 400
\* with the message of the declaration validator, and leaves no application
\* record and no file record.
DeclarationRequired ==
    \A r \in Requests :
        OnV2(r) /\ DeclarationRejected(r) =>
            /\ req[r].resp.status = 400
            /\ req[r].resp.error = "VALIDATION_FAILED"
            /\ req[r].resp.message =
                  "Declaration must be accepted to submit the application"
            /\ ApplicationsOf(r) = {}
            /\ FileUploadsOf(r) = {}

\* both files of an applications-v2 submission were uploaded and the save
\* was rejected for the declaration
RejectedForDeclaration ==
    \E r \in Requests :
        /\ OnV2(r)
        /\ DeclarationRejected(r)
        /\ {o.kind : o \in ObjectsOf(r)} = {"photograph", "resume"}
        /\ "dupCheck" \in Range(req[r].log)

\* the body of the 201 response has data.applicationId and data.email, and
\* applicationId is the id of the one record the request created, whose
\* emailAddress is data.email
SuccessBody(r) ==
    /\ "data" \in DOMAIN req[r].resp
    /\ DOMAIN req[r].resp.data = {"applicationId", "email"}
    /\ \E a \in applications :
          /\ ApplicationsOf(r) = {a}
          /\ a.id = req[r].resp.data.applicationId
          /\ a.emailAddress = req[r].resp.data.email

\* C29 as stated: a successful submission is answered 201 with a body whose
\* data.applicationId identifies the record just created and whose
\* data.email is the lowercased submitted address.
SuccessEmailLowercased ==
    \A r \in Requests :
        OnV2(r) /\ Succeeded(r) =>
            /\ SuccessBody(r)
            /\ req[r].resp.data.email = ToLowerCase(req[r].email)

\* C29: a successful submission is answered 201 with a body whose
\* data.applicationId identifies the record just created and whose
\* data.email is the submitted address lowercased and trimmed.
SuccessEmailNormalised ==
    \A r \in Requests :
        OnV2(r) /\ Succeeded(r) =>
            /\ SuccessBody(r)
            /\ req[r].resp.data.email = Trim(ToLowerCase(req[r].email))

\* a submission whose address had capitals and spaces around it succeeded
PaddedAddressAccepted ==
    \E r \in Requests :
        /\ OnV2(r)
        /\ Succeeded(r)
        /\ req[r].email # ToLowerCase(req[r].email)
        /\ ToLowerCase(req[r].email) # Trim(ToLowerCase(req[r].email))

\* the number of entries of a sequence equal to x
Occurrences(seq, x) == Cardinality({i \in DOMAIN seq : seq[i] = x})

UploadStepOf(kind) == IF kind = "photograph" THEN "uploadPhoto" ELSE "uploadResume"

UploadFailed(r, kind) ==
    /\ FailedAt(r, UploadStepOf(kind))
    /\ [by |-> r, kind |-> kind] \notin cloud

\* C30: every upload of a submission makes exactly one call to the storage
\* provider, so there is at most one call per file; a failure of the provider
\* is not thrown but returned, and the handler answers it at once with the
\* upload-failed response.
OneProviderCallPerFile ==
    \A r \in Requests : \A kind \in {"photograph", "resume"} :
        /\ Occurrences(req[r].calls, kind) =
              Occurrences(req[r].log, UploadStepOf(kind))
        /\ Occurrences(req[r].calls, kind) <= 1
        /\ UploadFailed(r, kind) =>
              /\ req[r].threw = NoError
              /\ req[r].resp = UploadFailedResponse(req[r].route, kind)
              /\ req[r].nresp = 1
              /\ Len(req[r].calls) = IF kind = "photograph" THEN 1 ELSE 2

\* the provider refused the resume after having stored the photograph
ResumeUploadFailedOnce ==
    \E r \in Requests :
        /\ UploadFailed(r, "resume")
        /\ req[r].calls = <<"photograph", "resume">>
        /\ [by |-> r, kind |-> "photograph"] \in cloud

\* the files for which the provider stored an object during the request
UploadedKinds(r) ==
    {kind \in {"photograph", "resume"} :
        /\ UploadStepOf(kind) \in Range(req[r].log)
        /\ Last(req[r].log) # UploadStepOf(kind) \/ Succeeded(r)}

FailedAfterUpload(r) ==
    /\ Answered(r)
    /\ req[r].resp.status # 201
    /\ UploadedKinds(r) # {}

InPipeline(r) == req[r].pc \notin {"idle", "done"}

\* C32: when every external call returns or fails, a submission that has
\* arrived is eventually answered, with exactly one response, and is then
\* at the end of its handler; no request is answered twice.
EverySubmissionAnswered ==
    /\ [](\A r \in Requests : req[r].nresp <= 1)
    /\ \A r \in Requests :
          InPipeline(r) ~> (req[r].pc = "done" /\ req[r].nresp = 1)

\* a request went through every step of its handler and was answered
AnsweredAtTheEnd ==
    \E r \in Requests :
        /\ req[r].pc = "done"
        /\ req[r].nresp = 1
        /\ Succeeded(r)
        /\ Len(req[r].log) = Len(Pipeline(req[r].route)) + 1

\* C33: every application record in the store has an age from 18 to 100, a
\* year of passing from 1950 to the current year plus five, a career gap
\* that is not negative, a mobile number of exactly ten digits, an accepted
\* declaration and the status pending.
StoredRecordsAreValid ==
    \A a \in applications :
        /\ a.age \in 18..100
        /\ a.yearOfPassing \in 1950..(CurrentYear + 5)
        /\ a.careerGap >= 0
        /\ Len(a.mobileNumber) = 10
        /\ \A i \in 1..Len(a.mobileNumber) : a.mobileNumber[i] \in Digits
        /\ a.declarationAccepted = TRUE
        /\ a.status = "pending"

\* a record at the upper ends of the ranges was stored, and its career gap
\* is one and a half years
RecordAtTheLimits ==
    \E a \in applications :
        /\ a.age = 100
        /\ a.yearOfPassing = CurrentYear + 5
        /\ a.careerGap = 15

SoftDeleted(fileId) ==
    \E f \in fileUploads :
        f.id = fileId /\ f.status = "deleted" /\ f.deletedAt # Undefined

DeleteSucceeded ==
    call.fn = "DELETE" /\ "resp" \in DOMAIN call /\ call.resp.status = 200

\* C34: a soft delete removes no file record: every record stays in the
\* store, a deleted record stays deleted, after a successful soft delete
\* the record has status 'deleted' and deletedAt set, also when it was
\* deleted before, and a list never returns a deleted record.
SoftDeleteKeepsRecord ==
    /\ [][/\ \A f \in fileUploads : \E g \in fileUploads' : g.id = f.id
          /\ \A f \in fileUploads :
                f.status = "deleted" => SoftDeleted(f.id)'
          /\ (call'.fn = "GET" /\ call' # call /\ call'.resp.status = 200) =>
                \A summary \in call'.resp.data : ~SoftDeleted(summary.id)]_vars
    /\ [](DeleteSucceeded => SoftDeleted(call.fileId))

\* a record that was already deleted was soft-deleted once more
DeletedTwice ==
    /\ DeleteSucceeded
    /\ call.file.status = "deleted"
    /\ SoftDeleted(call.fileId)

\* C35: a file record in the store belongs to a request whose application
\* record is in the store too, so a submission that ends in failure leaves
\* no file record.
FileRecordsFollowApplication ==
    \A r \in Requests :
        /\ FileUploadsOf(r) # {} => ApplicationsOf(r) # {}
        /\ Answered(r) /\ ~Succeeded(r) => FileUploadsOf(r) = {}

\* C36: a duplicate-key error (code 11000) and a schema ValidationError are
\* classified VALIDATION with HTTP status 400, whatever words their message
\* contains.
ClassifiedByKind ==
    /\ Called("classifyDatabaseError")
    /\ (call.error.code = "11000" \/ call.error.name = "ValidationError")
    => /\ call.result.category = "VALIDATION"
       /\ call.result.httpStatus = 400

\* C37: in applications-v2 every buffer sent to object storage is a buffer
\* on which the signature check ran and passed, each file is read at most
\* once, and an object in storage was sent from such a buffer.
UploadsValidatedBuffer ==
    \A r \in Requests :
        OnV2(r) =>
            /\ \A i \in DOMAIN req[r].sent :
                  LET s == req[r].sent[i] IN
                  /\ s.read \in DOMAIN req[r].reads[s.kind]
                  /\ req[r].reads[s.kind][s.read] = "checked"
            /\ \A kind \in {"photograph", "resume"} :
                  /\ Len(req[r].reads[kind]) <= 1
                  /\ [by |-> r, kind |-> kind] \in cloud =>
                        \E i \in DOMAIN req[r].sent : req[r].sent[i].kind = kind

\* both files of a submission were read once, checked, and uploaded
BothBuffersUploaded ==
    \E r \in Requests :
        /\ OnV2(r)
        /\ req[r].reads = [photograph |-> <<"checked">>, resume |-> <<"checked">>]
        /\ req[r].sent = <<[kind |-> "photograph", read |-> 1],
                           [kind |-> "resume", read |-> 1]>>
        /\ {o.kind : o \in ObjectsOf(r)} = {"photograph", "resume"}

PastFormData(r) == "formData" \in Range(req[r].log) /\ req[r].pc # "formData"

RejectedForUrl(r) ==
    /\ FailedAt(r, "formData")
    /\ req[r].resp.status = 400
    /\ req[r].resp.error = "INVALID_REQUEST"
    /\ req[r].threw = NoError
    /\ ApplicationsOf(r) = {} /\ FileUploadsOf(r) = {} /\ ObjectsOf(r) = {}

\* the text has a field outside the URL fields whose value begins with one
\* of the given schemes and '://'
UrlOutsideUrlFields(text, schemes) ==
    \E i \in DOMAIN text :
        /\ text[i].key \notin UrlFields
        /\ Len(text[i].value) >= 2
        /\ text[i].value[1] \in schemes
        /\ text[i].value[2] = "://"

\* C38 as stated: in applications-v2 a submission with a text field outside
\* linkedinUrl, githubUrl and portfolioUrl whose value starts with http://
\* or https:// is rejected with INVALID_REQUEST, 400, before any file
\* validation, upload or write, and no other text is rejected so.
RejectedIffHttpPrefix ==
    \A r \in Requests :
        OnV2(r) /\ PastFormData(r) =>
            (UrlOutsideUrlFields(req[r].text, {"http", "https"})
                <=> FailedAt(r, "formData"))

\* C38: in applications-v2 a submission with a text field outside
\* linkedinUrl, githubUrl and portfolioUrl whose value starts with http://
\* or https:// in small or capital letters is rejected with
\* INVALID_REQUEST, 400, before any file validation, upload or write, and
\* no other text is rejected so.
RejectedIffUrlPrefix ==
    \A r \in Requests :
        OnV2(r) /\ PastFormData(r) =>
            /\ UrlOutsideUrlFields(req[r].text, {"http", "https", "HTTP", "HTTPS"})
                  <=> FailedAt(r, "formData")
            /\ FailedAt(r, "formData") => RejectedForUrl(r)

\* a text with a URL in capitals in the city field, and URLs in the
\* full name behind a blank and in a URL field, was rejected
CapitalUrlRejected ==
    \E r \in Requests :
        /\ OnV2(r)
        /\ RejectedForUrl(r)
        /\ req[r].text[1].value = <<" ", "https", "://", "x.io">>
        /\ req[r].text[2].value = <<"http", "://", "x.io">>
        /\ req[r].text[3].value = <<"HTTPS", "://", "x.io">>
        /\ req[r].resp.message = "Field \"city\" contains unauthorized URL"

=============================================================================
